---- MODULE Spec2Model ----
(***************************************************************************)
(* A model of the dex DNS toolkit: the authoritative lookup of             *)
(* src/src/server.rs (Server::serve) over the zone index of src/src/lib.rs *)
(* and the wire codec of src/src/lib.rs (Bytes, Label, Name, Record,       *)
(* Header, Question, Message).                                             *)
(*                                                                         *)
(* A label is the sequence of its octets, a name the sequence of its       *)
(* labels (Name.labels), a record a TLA+ record whose field `kind` is the  *)
(* variant of the Rust enum.  A Rust panic is the value [ok |-> FALSE] of  *)
(* the operator that panics, or the outcome "panic" of serve.              *)
(***************************************************************************)
EXTENDS Integers, Sequences, FiniteSets, TLC

VARIABLES zone, pc, query, result, msg, wire, decoded, out, arg, ret

vars == <<zone, pc, query, result, msg, wire, decoded, out, arg, ret>>

(***************************************************************************)
(* Bounds of the model.                                                    *)
(***************************************************************************)
\* largest number of records declared in a zone
MaxZoneLen == 2

\* largest number of records a message of the codec runs carries
MaxRecords == 2

\* longest data of a NULL record in the codec runs: with the octets before
\* it, the record that follows starts beyond offset 2^14
MaxNullLen == 16384

(***************************************************************************)
(* Labels and names (src/src/lib.rs, Label and Name).                      *)
(***************************************************************************)
Dot == 46

Star == <<42>>

RootLabel == <<>>

la == <<97>>

lb == <<98>>

lc == <<99>>

Panic == [ok |-> FALSE]

Ok(v) == [ok |-> TRUE, val |-> v]

\* `let x = e;` followed by body: e is evaluated once and body sees its value
Let(e, body(_)) == CHOOSE y \in {body(x) : x \in {e}} : TRUE

\* `let x = e.unwrap();` followed by body: the panic of e is the panic of the
\* whole
Try(e, body(_)) ==
    CHOOSE y \in {IF x.ok THEN body(x) ELSE Panic : x \in {e}} : TRUE

\* The pattern "^*|[[:alpha:]]([[:alpha:]0-9-]*[[:alpha:]0-9])?$" is matched
\* unanchored: its first alternative, ^*, matches the empty string at offset
\* 0 of every text, so is_match holds of every text.
RE_is_match(text) == TRUE

\* Label::from_str: the two assertions, then the text itself.
Label_from_str(text) ==
    IF ~(Len(text) < 63) THEN Panic
    ELSE IF ~(text = <<>> \/ RE_is_match(text)) THEN Panic
    ELSE Ok(text)

RECURSIVE SumLen(_)
SumLen(labels) ==
    IF labels = <<>> THEN 0 ELSE Len(Head(labels)) + SumLen(Tail(labels))

\* from_labels with a length of 255 octets let through
Name_from_labels_255(labels) ==
    IF labels = <<>> THEN Panic
    ELSE IF ~(Len(labels) + SumLen(labels) < 256) THEN Panic
    ELSE IF labels[Len(labels)] # RootLabel THEN Panic
    ELSE IF \E i \in 1..(Len(labels) - 1) :
                labels[i] = RootLabel \/ (i # 1 /\ labels[i] = Star)
         THEN Panic
    ELSE Ok(labels)

\* Name::from_labels: the assertions on the label sequence.
Name_from_labels(labels) ==
    IF labels = <<>> THEN Panic
    ELSE IF ~(Len(labels) + SumLen(labels) < 255) THEN Panic
    ELSE IF labels[Len(labels)] # RootLabel THEN Panic
    ELSE IF \E i \in 1..(Len(labels) - 1) :
                labels[i] = RootLabel \/ (i # 1 /\ labels[i] = Star)
         THEN Panic
    ELSE Ok(labels)

Name_is_root(name) == Len(name) = 1

\* str::split("."): the pieces between the dots, the last one included;
\* piece is the text of the first piece in front of text.
Split(text, piece) ==
    Let({i \in 1..Len(text) : text[i] = Dot}, LAMBDA dots :
    LET n == Cardinality(dots)
        DotAt(k) == IF k = 0 THEN 0
                    ELSE IF k = n + 1 THEN Len(text) + 1
                    ELSE CHOOSE d \in dots :
                             Cardinality({e \in dots : e <= d}) = k
    IN  [k \in 1..(n + 1) |->
            (IF k = 1 THEN piece ELSE <<>>)
                \o SubSeq(text, DotAt(k - 1) + 1, DotAt(k) - 1)])

\* [String]::join("."): the pieces with one dot between neighbours.
RECURSIVE Join(_)
Join(pieces) ==
    IF pieces = <<>> THEN <<>>
    ELSE IF Len(pieces) = 1 THEN pieces[1]
    ELSE pieces[1] \o <<Dot>> \o Join(Tail(pieces))

\* the labels of a split text, or a panic when a label is refused
Labels_from_pieces(pieces) ==
    IF \E i \in 1..Len(pieces) : ~Label_from_str(pieces[i]).ok THEN Panic
    ELSE Ok([i \in 1..Len(pieces) |-> Label_from_str(pieces[i]).val])

\* <Name as FromStr>::from_str: a missing final dot is added, "." is the
\* root name, every other text is split at its dots.
Name_from_str(s) ==
    Let(IF s # <<>> /\ s[Len(s)] = Dot THEN s ELSE Append(s, Dot), LAMBDA s1 :
    Let(IF s1 = <<Dot>> THEN <<RootLabel>> ELSE Split(s1, <<>>), LAMBDA pieces :
    Try(Labels_from_pieces(pieces), LAMBDA labels :
    Name_from_labels(labels.val))))

\* NameVisitor::visit_str, the reading of a name of the zone file: the text
\* is split at its dots, a text whose last piece is not empty is an error.
Name_visit_str(v) ==
    Let(Split(v, <<>>), LAMBDA pieces :
    Try(Labels_from_pieces(pieces), LAMBDA labels :
    IF labels.val[Len(labels.val)] # RootLabel
    THEN [ok |-> TRUE, is_err |-> TRUE]
    ELSE Try(Name_from_labels(labels.val), LAMBDA name :
         [ok |-> TRUE, is_err |-> FALSE, val |-> name.val])))

\* Name::to_wildcard: "*" followed by all labels but the first, joined by
\* dots and parsed again.
Name_to_wildcard(name) ==
    Let(Join(<<Star>> \o Tail(name)), LAMBDA labels : Name_from_str(labels))

\* an iterator over the ancestors that starts before the root name
Ancestors_new_empty(name) == [name |-> name, pos |-> 0]

\* Ancestors::new and Ancestors::next.
Ancestors_new(name) == [name |-> name, pos |-> 1]

Ancestors_next(it) ==
    LET len == Len(it.name) IN
    IF it.pos > len THEN [some |-> FALSE, it |-> it]
    ELSE [some |-> TRUE,
          item |-> Name_from_labels(SubSeq(it.name, len - it.pos + 1, len)),
          it |-> [it EXCEPT !.pos = it.pos + 1]]

(***************************************************************************)
(* Records, questions, headers, messages, zones (src/src/lib.rs).          *)
(***************************************************************************)
\* Record::code
Record_code(r) ==
    CASE r.kind = "A" -> 1
      [] r.kind = "Ns" -> 2
      [] r.kind = "Md" -> 3
      [] r.kind = "Mf" -> 4
      [] r.kind = "Cname" -> 5
      [] r.kind = "Soa" -> 6
      [] r.kind = "Mb" -> 7
      [] r.kind = "Mg" -> 8
      [] r.kind = "Mr" -> 9
      [] r.kind = "Null" -> 10
      [] r.kind = "Wks" -> 11
      [] r.kind = "Ptr" -> 12
      [] r.kind = "Hinfo" -> 13
      [] r.kind = "Minfo" -> 14
      [] r.kind = "Mx" -> 15
      [] r.kind = "Txt" -> 16
      [] r.kind = "Aaaa" -> 28

\* <u16 as From<QuestionType>>::from, used by QuestionType::code
QuestionType_code(t) ==
    CASE t = "A" -> 1
      [] t = "NS" -> 2
      [] t = "MD" -> 3
      [] t = "MF" -> 4
      [] t = "CNAME" -> 5
      [] t = "SOA" -> 6
      [] t = "MB" -> 7
      [] t = "MG" -> 8
      [] t = "MR" -> 9
      [] t = "NULL" -> 10
      [] t = "WKS" -> 11
      [] t = "PTR" -> 12
      [] t = "HINFO" -> 13
      [] t = "MINFO" -> 14
      [] t = "MX" -> 15
      [] t = "TXT" -> 16
      [] t = "AXFR" -> 252
      [] t = "MAILB" -> 253
      [] t = "MAILA" -> 254
      [] t = "ALL" -> 255

\* Record::with_name: the same variant and payload under another name.
Record_with_name_keep(r, name) == r

Record_with_name(r, name) == [r EXCEPT !.name = name]

\* Zone::find_with_name: the records of that name, in declaration order.
RECURSIVE Reverse(_)
Reverse(s) == IF s = <<>> THEN <<>> ELSE Append(Reverse(Tail(s)), Head(s))

find_with_name_reversed(z, name) ==
    Reverse(SelectSeq(z.records, LAMBDA r : r.name = name))

find_with_name(z, name) ==
    SelectSeq(z.records, LAMBDA r : r.name = name)

\* Header::default and Message::new
Header_default ==
    [id |-> 0, is_response |-> FALSE, op_code |-> "Query",
     is_authority |-> FALSE, is_truncated |-> FALSE,
     recursion_desired |-> FALSE, recursion_available |-> FALSE,
     resp_code |-> "Success", question_count |-> 0, answer_count |-> 0,
     authority_count |-> 0, additional_count |-> 0]

Message_new ==
    [header |-> Header_default, questions |-> <<>>, answer_records |-> <<>>,
     authority_records |-> <<>>, additional_records |-> <<>>]

U16(n) == n % 65536

(***************************************************************************)
(* The authoritative lookup, Server::serve (src/src/server.rs).            *)
(***************************************************************************)
None == [is_some |-> FALSE, records |-> <<>>]

Some(records) == [is_some |-> TRUE, records |-> records]

\* name_records.iter().find(|r| matches!(r, Record::Cname { .. }))
RECURSIVE cname_record_last(_)
cname_record_last(name_records) ==
    IF name_records = <<>> THEN None
    ELSE IF name_records[Len(name_records)].kind = "Cname"
         THEN Some(<<name_records[Len(name_records)]>>)
    ELSE cname_record_last(SubSeq(name_records, 1, Len(name_records) - 1))

RECURSIVE cname_record(_)
cname_record(name_records) ==
    IF name_records = <<>> THEN None
    ELSE IF Head(name_records).kind = "Cname" THEN Some(<<Head(name_records)>>)
    ELSE cname_record(Tail(name_records))

\* the filter of the exact matches: the question's type, or every record
\* when the question asks for ALL
matched_records(name_records, question) ==
    SelectSeq(name_records,
              LAMBDA r : Record_code(r) = QuestionType_code(question.q_type)
                         \/ question.q_type = "ALL")

\* the filter of the delegation: the NS records of the level
delegation_records(name_records) ==
    SelectSeq(name_records, LAMBDA r : r.kind = "Ns")

\* the records of the level's wildcard name that have the question's type
wildcard_records(z, qname, question) ==
    Try(Name_to_wildcard(qname), LAMBDA w :
    Ok(SelectSeq(find_with_name(z, w.val),
                 LAMBDA r : Record_code(r) = QuestionType_code(question.q_type))))

\* "if there are records at this level, discard wildcard answers"
discard_never(name_records, wildcard_answers) == wildcard_answers

discard_wildcard_answers(name_records, wildcard_answers) ==
    IF name_records # <<>> THEN None ELSE wildcard_answers

\* the two `continue`s in front of the wildcard lookup
skips_wildcard_lookup(qname, name_records) ==
    Name_is_root(qname) \/ name_records # <<>>

\* the response of the CNAME branch
cname_response(response, cname) ==
    [response EXCEPT !.header.is_authority = TRUE,
                     !.header.resp_code = "Success",
                     !.header.answer_count = 1,
                     !.answer_records = Append(@, cname)]

\* the exact-match branch with the response code of the query left in place
exact_response_code_kept(response, matched) ==
    [response EXCEPT !.header.is_authority = TRUE,
                     !.header.answer_count = U16(Len(matched)),
                     !.answer_records = @ \o matched]

\* the response of the exact-match branch
exact_response(response, matched) ==
    [response EXCEPT !.header.is_authority = TRUE,
                     !.header.resp_code = "Success",
                     !.header.answer_count = U16(Len(matched)),
                     !.answer_records = @ \o matched]

\* the response of the delegation branch
delegation_response_authoritative(response, delegation) ==
    [response EXCEPT !.header.is_authority = TRUE,
                     !.header.resp_code = "Success",
                     !.header.authority_count = U16(Len(delegation)),
                     !.authority_records = @ \o delegation]

delegation_response(response, delegation) ==
    [response EXCEPT !.header.is_authority = FALSE,
                     !.header.resp_code = "Success",
                     !.header.authority_count = U16(Len(delegation)),
                     !.authority_records = @ \o delegation]

\* the response built from the wildcard answers held after the walk
wildcard_response(response, question, records) ==
    [response EXCEPT !.header.is_authority = TRUE,
                     !.header.resp_code = "Success",
                     !.header.answer_count = U16(Len(records)),
                     !.answer_records =
                         @ \o [i \in 1..Len(records) |->
                                 Record_with_name(records[i], question.name)]]

\* One pass of the body of `for qname in question.name.ancestors()`:
\* either serve returns (done) or the loop goes on with wildcard_answers.
visit(z, response, question, qname, wildcard_answers) ==
    Let(find_with_name(z, qname), LAMBDA name_records :
    LET held == discard_wildcard_answers(name_records, wildcard_answers)
        leaf == qname = question.name
        cname == cname_record(name_records)
        matched == matched_records(name_records, question)
        delegation == delegation_records(name_records)
    IN  IF leaf /\ cname.is_some
        THEN [done |-> TRUE, outcome |-> "CNAME",
              response |-> cname_response(response, cname.records[1])]
        ELSE IF leaf /\ matched # <<>>
        THEN [done |-> TRUE, outcome |-> "ExactAnswer",
              response |-> exact_response(response, matched)]
        ELSE IF delegation # <<>>
        THEN [done |-> TRUE, outcome |-> "Delegation",
              response |-> delegation_response(response, delegation)]
        ELSE IF skips_wildcard_lookup(qname, name_records)
        THEN [done |-> FALSE, outcome |-> "continue", wildcard_answers |-> held]
        ELSE Let(wildcard_records(z, qname, question), LAMBDA wild :
             IF ~wild.ok THEN [done |-> TRUE, outcome |-> "panic"]
             ELSE IF wild.val # <<>>
             THEN [done |-> FALSE, outcome |-> "continue",
                   wildcard_answers |-> Some(wild.val)]
             ELSE [done |-> FALSE, outcome |-> "continue",
                   wildcard_answers |-> held]))

\* the loop over the ancestors and the code after it
RECURSIVE walk(_, _, _, _, _)
walk(z, response, question, it, wildcard_answers) ==
    Let(Ancestors_next(it), LAMBDA nxt :
    IF ~nxt.some
    THEN IF wildcard_answers.is_some
         THEN [outcome |-> "WildcardAnswer",
               response |-> wildcard_response(response, question,
                                              wildcard_answers.records)]
         ELSE [outcome |-> "NameError",
               response |-> [response EXCEPT !.header.resp_code = "NameError"]]
    ELSE IF ~nxt.item.ok THEN [outcome |-> "panic"]
    ELSE Let(visit(z, response, question, nxt.item.val, wildcard_answers),
             LAMBDA v :
         IF v.done
         THEN IF v.outcome = "panic" THEN [outcome |-> "panic"]
              ELSE [outcome |-> v.outcome, response |-> v.response]
         ELSE walk(z, response, question, nxt.it, v.wildcard_answers)))

\* the first statement of serve
mark_response_unmarked(q) == q

mark_response(q) == [q EXCEPT !.header.is_response = TRUE]

\* Server::serve: the outcome names the return statement taken; "panic" is
\* the index out of bounds of `response.questions[0]` (or a panic below it).
serve(z, q) ==
    LET response == mark_response(q) IN
    IF Len(response.questions) = 0 THEN [outcome |-> "panic"]
    ELSE LET question == response.questions[1] IN
         IF response.header.op_code # "Query"
         THEN [outcome |-> "NotImplemented",
               response |-> [response EXCEPT !.header.resp_code = "NotImplemented"]]
         ELSE walk(z, response, question, Ancestors_new(question.name), None)

(***************************************************************************)
(* The byte cursor, Bytes (src/src/lib.rs).  Offsets count from 0 as in    *)
(* the source; buf[i + 1] is the octet at offset i.  A read that returns   *)
(* None, and a slice taken beyond the end of the buffer, are both          *)
(* [ok |-> FALSE]: every caller unwraps the result.                        *)
(***************************************************************************)
NoOccs == [s \in {} |-> 0]

\* Option<usize>
OptNone == [is_some |-> FALSE]

OptSome(v) == [is_some |-> TRUE, val |-> v]

\* Bytes::new and Bytes::from_buf
Bytes_new == [buf |-> <<>>, pos |-> 0, occs |-> NoOccs]

Bytes_from_buf(buf) == [buf |-> buf, pos |-> 0, occs |-> NoOccs]

\* Bytes::used
Bytes_used(b) == SubSeq(b.buf, 1, b.pos)

\* Bytes::seek
Bytes_seek(b, p) == [b EXCEPT !.pos = p]

\* Bytes::peek
Bytes_peek(b) ==
    IF b.pos >= Len(b.buf) THEN Panic
    ELSE [ok |-> TRUE, val |-> b.buf[b.pos + 1], bytes |-> b]

\* Bytes::read
Bytes_read(b) ==
    IF b.pos >= Len(b.buf) THEN Panic
    ELSE [ok |-> TRUE, val |-> b.buf[b.pos + 1],
          bytes |-> [b EXCEPT !.pos = b.pos + 1]]

\* Bytes::read_exact
Bytes_read_exact(b, n) ==
    IF b.pos > Len(b.buf) \/ Len(b.buf) - b.pos < n THEN Panic
    ELSE [ok |-> TRUE, val |-> SubSeq(b.buf, b.pos + 1, b.pos + n),
          bytes |-> [b EXCEPT !.pos = b.pos + n]]

\* a u32 is the pair of its high and its low 16 bits
U32_of(hi, lo) == <<hi, lo>>

\* Bytes::read_u16 and Bytes::read_u32: big-endian
Bytes_read_u16(b) ==
    Try(Bytes_read_exact(b, 2),
        LAMBDA r : [ok |-> TRUE, val |-> r.val[1] * 256 + r.val[2],
                    bytes |-> r.bytes])

Bytes_read_u32(b) ==
    Try(Bytes_read_exact(b, 4),
        LAMBDA r : [ok |-> TRUE, bytes |-> r.bytes,
                    val |-> U32_of(r.val[1] * 256 + r.val[2],
                                   r.val[3] * 256 + r.val[4])])

\* Bytes::write and Bytes::write_all: push at the end of the buffer
Bytes_write(b, byte) ==
    [b EXCEPT !.buf = Append(@, byte), !.pos = @ + 1]

Bytes_write_all(b, bytes) ==
    [b EXCEPT !.buf = @ \o bytes, !.pos = @ + Len(bytes)]

\* u16::to_be_bytes and u32::to_be_bytes
U16_to_be_bytes(num) == <<num \div 256, num % 256>>

U32_to_be_bytes(num) ==
    <<num[1] \div 256, num[1] % 256, num[2] \div 256, num[2] % 256>>

\* Bytes::write_u16 and Bytes::write_u32
Bytes_write_u16(b, num) == Bytes_write_all(b, U16_to_be_bytes(num))

Bytes_write_u32(b, num) == Bytes_write_all(b, U32_to_be_bytes(num))

\* Bytes::set_u16: overwrites the two octets at offset p
Bytes_set_u16(b, p, num) ==
    [b EXCEPT !.buf = [@ EXCEPT ![p + 1] = num \div 256, ![p + 2] = num % 256]]

\* <Name as Display>::fmt: every label, a dot after each non-empty one
RECURSIVE Name_to_string(_)
Name_to_string(name) ==
    IF name = <<>> THEN <<>>
    ELSE (IF Head(name) # RootLabel THEN Head(name) \o <<Dot>> ELSE Head(name))
         \o Name_to_string(Tail(name))

\* Bytes::find_first_occ and Bytes::set_first_occ: keyed by the text of the name
Bytes_find_first_occ(b, name) ==
    LET s == Name_to_string(name) IN
    IF s \in DOMAIN b.occs THEN OptSome(b.occs[s]) ELSE OptNone

Bytes_set_first_occ(b, name, p) ==
    LET s == Name_to_string(name) IN
    [b EXCEPT !.occs = [k \in DOMAIN @ \cup {s} |-> IF k = s THEN p ELSE @[k]]]

(***************************************************************************)
(* The wire form of labels and names (src/src/lib.rs).                     *)
(***************************************************************************)
U8(n) == n % 256

Min(x, y) == IF x < y THEN x ELSE y

\* String::from_utf8: the octets are well-formed UTF-8.  An octet of
\* 128..191 continues a character; any other octet starts one, of the length
\* its value gives, and every continuation octet belongs to the character
\* started before it.
Utf8CharLen(byte) ==
    IF byte < 128 THEN 1
    ELSE IF byte >= 194 /\ byte <= 223 THEN 2
    ELSE IF byte >= 224 /\ byte <= 239 THEN 3
    ELSE IF byte >= 240 /\ byte <= 244 THEN 4
    ELSE 0

Utf8Valid(s) ==
    LET Cont(k) == k >= 1 /\ k <= Len(s) /\ s[k] >= 128 /\ s[k] <= 191
        Starts(i) ==
            /\ Utf8CharLen(s[i]) > 0
            /\ \A k \in (i + 1)..(i + Utf8CharLen(s[i]) - 1) : Cont(k)
            /\ s[i] = 224 => s[i + 1] >= 160
            /\ s[i] = 237 => s[i + 1] <= 159
            /\ s[i] = 240 => s[i + 1] >= 144
            /\ s[i] = 244 => s[i + 1] <= 143
        Continues(k) ==
            \E d \in 1..3 :
                /\ k - d >= 1
                /\ ~Cont(k - d)
                /\ Utf8CharLen(s[k - d]) > d
                /\ \A j \in (k - d + 1)..(k - 1) : Cont(j)
    IN  \A i \in 1..Len(s) : IF Cont(i) THEN Continues(i) ELSE Starts(i)

\* Label::from_bytes
Label_from_bytes(b) ==
    Try(Bytes_read(b), LAMBDA len :
    Try(Bytes_read_exact(len.bytes, len.val), LAMBDA bytez :
    IF ~Utf8Valid(bytez.val) THEN Panic
    ELSE Try(Label_from_str(bytez.val), LAMBDA label :
         [ok |-> TRUE, val |-> label.val, bytes |-> bytez.bytes])))

\* Label::to_bytes
Label_to_bytes(label, b) ==
    Bytes_write_all(Bytes_write(b, U8(Len(label))), label)

\* Label::len
Label_len(label) == U8(Len(label))

\* Suffixes::new and Suffixes::next
Suffixes_new(name) == [name |-> name, pos |-> 0]

Suffixes_next(it) ==
    LET len == Len(it.name) IN
    IF it.pos > len THEN [some |-> FALSE, it |-> it]
    ELSE [some |-> TRUE,
          item |-> Name_from_labels(SubSeq(it.name, it.pos + 1, len)),
          it |-> [it EXCEPT !.pos = it.pos + 1]]

\* the mask of the offset of a pointer, 0b0011_1111_1111_1111, and the two
\* bits above it, 0b1100_0000_0000_0000
PtrMask == 16383

PtrFlag == 49152

\* the pointer word of Name::to_bytes, 0b1100_0000_0000_0000 | offset as u16:
\* the two top bits are set whatever they were, the low 14 bits are kept
PtrWord(offset) == PtrFlag + (U16(offset) % (PtrMask + 1))

\* the loop of Name::from_bytes
RECURSIVE Name_from_bytes_loop(_, _, _, _)
Name_from_bytes_loop(b, labels, restore, max) ==
    Try(Bytes_peek(b), LAMBDA signal :
    IF (signal.val \div 64) % 4 = 3
    THEN Try(Bytes_read_u16(b), LAMBDA ptr :
         Let(ptr.val % (PtrMask + 1), LAMBDA offset :
         IF offset >= max THEN Panic
         ELSE Name_from_bytes_loop(
                  Bytes_seek(ptr.bytes, offset), labels,
                  IF restore.is_some THEN restore ELSE OptSome(ptr.bytes.pos),
                  offset)))
    ELSE Try(Label_from_bytes(b), LAMBDA label :
         IF Label_len(label.val) = 0
         THEN [ok |-> TRUE, labels |-> Append(labels, label.val),
               restore |-> restore, bytes |-> label.bytes]
         ELSE Name_from_bytes_loop(label.bytes, Append(labels, label.val),
                                   restore, max)))

\* Name::from_bytes
Name_from_bytes(b) ==
    Try(Name_from_bytes_loop(b, <<>>, OptNone, b.pos), LAMBDA r :
    Try(Name_from_labels(r.labels), LAMBDA name :
    [ok |-> TRUE, val |-> name.val,
     bytes |-> IF r.restore.is_some THEN Bytes_seek(r.bytes, r.restore.val)
               ELSE r.bytes]))

\* the locals of Name::from_bytes when the loop is entered
Name_from_bytes_locals(b) ==
    [bytes |-> b, labels |-> <<>>, restore |-> OptNone, max |-> b.pos]

\* one pass of the loop with a pointer to max itself let through
Name_from_bytes_pass_self(st) ==
    Try(Bytes_peek(st.bytes), LAMBDA signal :
    IF (signal.val \div 64) % 4 = 3
    THEN Try(Bytes_read_u16(st.bytes), LAMBDA ptr :
         Let(ptr.val % (PtrMask + 1), LAMBDA offset :
         IF offset > st.max THEN Panic
         ELSE [ok |-> TRUE, break |-> FALSE,
               st |-> [bytes |-> Bytes_seek(ptr.bytes, offset),
                       labels |-> st.labels,
                       restore |-> IF st.restore.is_some THEN st.restore
                                   ELSE OptSome(ptr.bytes.pos),
                       max |-> offset]]))
    ELSE Try(Label_from_bytes(st.bytes), LAMBDA label :
         [ok |-> TRUE, break |-> Label_len(label.val) = 0,
          st |-> [st EXCEPT !.bytes = label.bytes,
                            !.labels = Append(st.labels, label.val)]]))

\* one pass of the loop of Name::from_bytes over its locals: a pointer is
\* followed or refused, or a label is read and the loop left at the root label
Name_from_bytes_pass(st) ==
    Try(Bytes_peek(st.bytes), LAMBDA signal :
    IF (signal.val \div 64) % 4 = 3
    THEN Try(Bytes_read_u16(st.bytes), LAMBDA ptr :
         Let(ptr.val % (PtrMask + 1), LAMBDA offset :
         IF offset >= st.max THEN Panic
         ELSE [ok |-> TRUE, break |-> FALSE,
               st |-> [bytes |-> Bytes_seek(ptr.bytes, offset),
                       labels |-> st.labels,
                       restore |-> IF st.restore.is_some THEN st.restore
                                   ELSE OptSome(ptr.bytes.pos),
                       max |-> offset]]))
    ELSE Try(Label_from_bytes(st.bytes), LAMBDA label :
         [ok |-> TRUE, break |-> Label_len(label.val) = 0,
          st |-> [st EXCEPT !.bytes = label.bytes,
                            !.labels = Append(st.labels, label.val)]]))

\* the end of Name::from_bytes: the cursor goes back behind the first pointer
\* and the labels are made a name
Name_from_bytes_end(st) ==
    Try(Name_from_labels(st.labels), LAMBDA name :
    [ok |-> TRUE, val |-> name.val,
     bytes |-> IF st.restore.is_some
               THEN Bytes_seek(st.bytes, st.restore.val) ELSE st.bytes])

\* the loop of Name::to_bytes over the suffixes of the name
RECURSIVE Name_to_bytes_loop(_, _)
Name_to_bytes_loop(it, bytes) ==
    Let(Suffixes_next(it), LAMBDA nxt :
    Let(bytes, LAMBDA b :
    LET start_pos == b.pos
        suffix == nxt.item.val
    IN  IF ~nxt.some THEN b
        ELSE IF Name_is_root(suffix) THEN Label_to_bytes(suffix[1], b)
        ELSE Let(Bytes_find_first_occ(b, suffix), LAMBDA occ :
             IF occ.is_some THEN Bytes_write_u16(b, PtrWord(occ.val))
             ELSE Name_to_bytes_loop(
                      nxt.it,
                      Label_to_bytes(suffix[1],
                                     Bytes_set_first_occ(b, suffix, start_pos))))))

\* Name::to_bytes
Name_to_bytes(name, b) == Name_to_bytes_loop(Suffixes_new(name), b)

(***************************************************************************)
(* The wire form of records, headers, questions and messages               *)
(* (src/src/lib.rs).  An IPv4 address is the u32 of its octets, an IPv6    *)
(* address the sequence of its 16 octets, a String the sequence of its     *)
(* octets.                                                                 *)
(***************************************************************************)
\* <Class as From<u16>>::from and <u16 as From<Class>>::from
Class_from_u16(value) ==
    CASE value = 1 -> Ok("In")
      [] value = 2 -> Ok("Cs")
      [] value = 3 -> Ok("Ch")
      [] value = 4 -> Ok("Hs")
      [] OTHER -> Panic

Class_to_u16(class) ==
    CASE class = "In" -> 1
      [] class = "Cs" -> 2
      [] class = "Ch" -> 3
      [] class = "Hs" -> 4

\* <QuestionClass as From<u16>>::from and <u16 as From<QuestionClass>>::from
QuestionClass_from_u16(value) ==
    CASE value = 1 -> Ok("In")
      [] value = 2 -> Ok("Cs")
      [] value = 3 -> Ok("Ch")
      [] value = 4 -> Ok("Hs")
      [] value = 255 -> Ok("Any")
      [] OTHER -> Panic

QuestionClass_to_u16(class) ==
    CASE class = "In" -> 1
      [] class = "Cs" -> 2
      [] class = "Ch" -> 3
      [] class = "Hs" -> 4
      [] class = "Any" -> 255

\* <QuestionType as From<u16>>::from
QuestionType_from_u16(value) ==
    CASE value = 1 -> Ok("A")
      [] value = 2 -> Ok("NS")
      [] value = 3 -> Ok("MD")
      [] value = 4 -> Ok("MF")
      [] value = 5 -> Ok("CNAME")
      [] value = 6 -> Ok("SOA")
      [] value = 7 -> Ok("MB")
      [] value = 8 -> Ok("MG")
      [] value = 9 -> Ok("MR")
      [] value = 10 -> Ok("NULL")
      [] value = 11 -> Ok("WKS")
      [] value = 12 -> Ok("PTR")
      [] value = 13 -> Ok("HINFO")
      [] value = 14 -> Ok("MINFO")
      [] value = 15 -> Ok("MX")
      [] value = 16 -> Ok("TXT")
      [] value = 252 -> Ok("AXFR")
      [] value = 253 -> Ok("MAILB")
      [] value = 254 -> Ok("MAILA")
      [] value = 255 -> Ok("ALL")
      [] OTHER -> Panic

\* <OperationCode as From<u8>>::from and <u8 as From<OperationCode>>::from
OperationCode_from_u8(value) ==
    CASE value = 0 -> Ok("Query")
      [] value = 1 -> Ok("InverseQuery")
      [] value = 2 -> Ok("Status")
      [] OTHER -> Panic

OperationCode_to_u8(op) ==
    CASE op = "Query" -> 0
      [] op = "InverseQuery" -> 1
      [] op = "Status" -> 2

\* <ResponseCode as From<u8>>::from and <u8 as From<ResponseCode>>::from
ResponseCode_from_u8(value) ==
    CASE value = 0 -> Ok("Success")
      [] value = 1 -> Ok("FormatError")
      [] value = 2 -> Ok("ServerFailure")
      [] value = 3 -> Ok("NameError")
      [] value = 4 -> Ok("NotImplemented")
      [] value = 5 -> Ok("Refused")
      [] OTHER -> Panic

ResponseCode_to_u8(rc) ==
    CASE rc = "Success" -> 0
      [] rc = "FormatError" -> 1
      [] rc = "ServerFailure" -> 2
      [] rc = "NameError" -> 3
      [] rc = "NotImplemented" -> 4
      [] rc = "Refused" -> 5

\* the record kinds whose rdata is one name, `host`, with their type codes
HostKind(r_type) ==
    CASE r_type = 2 -> "Ns"
      [] r_type = 3 -> "Md"
      [] r_type = 4 -> "Mf"
      [] r_type = 5 -> "Cname"
      [] r_type = 7 -> "Mb"
      [] r_type = 8 -> "Mg"
      [] r_type = 9 -> "Mr"
      [] r_type = 12 -> "Ptr"

HostKinds == {"Ns", "Md", "Mf", "Cname", "Mb", "Mg", "Mr", "Ptr"}

\* a character-string of rdata: one length octet, then the text (HINFO)
CharString_from_bytes(b) ==
    Try(Bytes_read(b), LAMBDA len :
    Try(Bytes_read_exact(len.bytes, len.val), LAMBDA bytez :
    IF ~Utf8Valid(bytez.val) THEN Panic
    ELSE [ok |-> TRUE, val |-> bytez.val, bytes |-> bytez.bytes]))

\* the loop of the TXT branch of Record::from_bytes
RECURSIVE Txt_from_bytes(_, _, _, _)
Txt_from_bytes(b, buf, read, rd_len) ==
    IF ~(read < rd_len) THEN [ok |-> TRUE, val |-> buf, bytes |-> b]
    ELSE Try(Bytes_read(b), LAMBDA len :
         Try(Bytes_read_exact(len.bytes, len.val), LAMBDA bytez :
         Txt_from_bytes(bytez.bytes, buf \o bytez.val, read + len.val + 1,
                        rd_len)))

\* the `match r_type` of Record::from_bytes
Record_rdata_from_bytes(name, r_type, class, ttl, rd_len, b) ==
    CASE r_type = 1 ->
           Try(Bytes_read_u32(b), LAMBDA addr :
           [ok |-> TRUE, bytes |-> addr.bytes,
            val |-> [kind |-> "A", name |-> name, class |-> class,
                     ttl |-> ttl, addr |-> addr.val]])
      [] r_type \in {2, 3, 4, 5, 7, 8, 9, 12} ->
           Try(Name_from_bytes(b), LAMBDA host :
           [ok |-> TRUE, bytes |-> host.bytes,
            val |-> [kind |-> HostKind(r_type), name |-> name,
                     class |-> class, ttl |-> ttl, host |-> host.val]])
      [] r_type = 6 ->
           Try(Name_from_bytes(b), LAMBDA origin :
           Try(Name_from_bytes(origin.bytes), LAMBDA mailbox :
           Try(Bytes_read_u32(mailbox.bytes), LAMBDA version :
           Try(Bytes_read_u32(version.bytes), LAMBDA refresh :
           Try(Bytes_read_u32(refresh.bytes), LAMBDA retry :
           Try(Bytes_read_u32(retry.bytes), LAMBDA expire :
           Try(Bytes_read_u32(expire.bytes), LAMBDA minimum :
           [ok |-> TRUE, bytes |-> minimum.bytes,
            val |-> [kind |-> "Soa", name |-> name, class |-> class,
                     ttl |-> ttl, origin |-> origin.val,
                     mailbox |-> mailbox.val, version |-> version.val,
                     refresh |-> refresh.val, retry |-> retry.val,
                     expire |-> expire.val, minimum |-> minimum.val]])))))))
      [] r_type = 10 ->
           Try(Bytes_read_exact(b, rd_len), LAMBDA data :
           [ok |-> TRUE, bytes |-> data.bytes,
            val |-> [kind |-> "Null", name |-> name, class |-> class,
                     ttl |-> ttl, data |-> data.val]])
      [] r_type = 11 ->
           Try(Bytes_read_u32(b), LAMBDA addr :
           Try(Bytes_read(addr.bytes), LAMBDA protocol :
           IF rd_len < 5 THEN Panic
           ELSE Try(Bytes_read_exact(protocol.bytes, rd_len - 5), LAMBDA data :
                [ok |-> TRUE, bytes |-> data.bytes,
                 val |-> [kind |-> "Wks", name |-> name, class |-> class,
                          ttl |-> ttl, addr |-> addr.val,
                          protocol |-> protocol.val, data |-> data.val]])))
      [] r_type = 13 ->
           Try(CharString_from_bytes(b), LAMBDA cpu :
           Try(CharString_from_bytes(cpu.bytes), LAMBDA os :
           [ok |-> TRUE, bytes |-> os.bytes,
            val |-> [kind |-> "Hinfo", name |-> name, class |-> class,
                     ttl |-> ttl, cpu |-> cpu.val, os |-> os.val]]))
      [] r_type = 14 ->
           Try(Name_from_bytes(b), LAMBDA r_mailbox :
           Try(Name_from_bytes(r_mailbox.bytes), LAMBDA e_mailbox :
           [ok |-> TRUE, bytes |-> e_mailbox.bytes,
            val |-> [kind |-> "Minfo", name |-> name, class |-> class,
                     ttl |-> ttl, r_mailbox |-> r_mailbox.val,
                     e_mailbox |-> e_mailbox.val]]))
      [] r_type = 15 ->
           Try(Bytes_read_u16(b), LAMBDA priority :
           Try(Name_from_bytes(priority.bytes), LAMBDA host :
           [ok |-> TRUE, bytes |-> host.bytes,
            val |-> [kind |-> "Mx", name |-> name, class |-> class,
                     ttl |-> ttl, priority |-> priority.val,
                     host |-> host.val]]))
      [] r_type = 16 ->
           Try(Txt_from_bytes(b, <<>>, 0, rd_len), LAMBDA content :
           IF ~Utf8Valid(content.val) THEN Panic
           ELSE [ok |-> TRUE, bytes |-> content.bytes,
                 val |-> [kind |-> "Txt", name |-> name, class |-> class,
                          ttl |-> ttl, content |-> content.val]])
      [] r_type = 28 ->
           Try(Bytes_read_exact(b, 16), LAMBDA addr :
           [ok |-> TRUE, bytes |-> addr.bytes,
            val |-> [kind |-> "Aaaa", name |-> name, class |-> class,
                     ttl |-> ttl, addr |-> addr.val]])
      [] OTHER -> Panic

\* Record::from_bytes
Record_from_bytes(b) ==
    Try(Name_from_bytes(b), LAMBDA name :
    Try(Bytes_read_u16(name.bytes), LAMBDA r_type :
    Try(Bytes_read_u16(r_type.bytes), LAMBDA class_code :
    Try(Class_from_u16(class_code.val), LAMBDA class :
    Try(Bytes_read_u32(class_code.bytes), LAMBDA ttl :
    Try(Bytes_read_u16(ttl.bytes), LAMBDA rd_len :
    Record_rdata_from_bytes(name.val, r_type.val, class.val, ttl.val,
                            rd_len.val, rd_len.bytes)))))))

\* the back-patched length: `bytes.set_u16(pos, size as u16)` with
\* size = bytes.pos() - (pos + 2)
Patch_rd_len(bytes, p) ==
    Let(bytes, LAMBDA b : Bytes_set_u16(b, p, U16(b.pos - (p + 2))))

\* content.as_bytes().chunks(255), each chunk written behind its length
RECURSIVE Txt_to_bytes(_, _, _)
Txt_to_bytes(bytez, i, b) ==
    IF i > Len(bytez) THEN b
    ELSE LET n == Min(Len(bytez) - i + 1, 255) IN
         Txt_to_bytes(bytez, i + n,
                      Bytes_write_all(Bytes_write(b, U8(n)),
                                      SubSeq(bytez, i, i + n - 1)))

\* the `match self` of Record::to_bytes: rdlength and rdata
Record_rdata_to_bytes(r, bytes) ==
    Let(bytes, LAMBDA b :
    LET p == b.pos
        reserved == Bytes_write_u16(b, 0)
    IN  CASE r.kind = "A" ->
               Bytes_write_all(Bytes_write_u16(b, 4), U32_to_be_bytes(r.addr))
          [] r.kind \in HostKinds ->
               Patch_rd_len(Name_to_bytes(r.host, reserved), p)
          [] r.kind = "Soa" ->
               Patch_rd_len(
                   Bytes_write_u32(Bytes_write_u32(Bytes_write_u32(
                       Bytes_write_u32(Bytes_write_u32(
                           Name_to_bytes(r.mailbox, Name_to_bytes(r.origin, reserved)),
                           r.version), r.refresh), r.retry), r.expire), r.minimum),
                   p)
          [] r.kind = "Null" ->
               Bytes_write_all(Bytes_write_u16(b, U16(Len(r.data))), r.data)
          [] r.kind = "Wks" ->
               Patch_rd_len(
                   Bytes_write_all(
                       Bytes_write(Bytes_write_all(reserved, U32_to_be_bytes(r.addr)),
                                   r.protocol),
                       r.data),
                   p)
          [] r.kind = "Hinfo" ->
               Patch_rd_len(
                   Bytes_write_all(
                       Bytes_write(
                           Bytes_write_all(Bytes_write(reserved, U8(Len(r.cpu))), r.cpu),
                           U8(Len(r.os))),
                       r.os),
                   p)
          [] r.kind = "Minfo" ->
               Patch_rd_len(
                   Name_to_bytes(r.e_mailbox, Name_to_bytes(r.r_mailbox, reserved)), p)
          [] r.kind = "Mx" ->
               Patch_rd_len(
                   Name_to_bytes(r.host, Bytes_write_u16(reserved, r.priority)), p)
          [] r.kind = "Txt" ->
               Patch_rd_len(Txt_to_bytes(r.content, 1, reserved), p)
          [] r.kind = "Aaaa" ->
               Bytes_write_all(Bytes_write_u16(b, 16), r.addr))

\* Record::to_bytes
Record_to_bytes(r, b) ==
    Record_rdata_to_bytes(
        r,
        Bytes_write_u32(
            Bytes_write_u16(
                Bytes_write_u16(Name_to_bytes(r.name, b), Record_code(r)),
                Class_to_u16(r.class)),
            r.ttl))

Bit(flag) == IF flag THEN 1 ELSE 0

\* Header::to_bytes
Header_to_bytes(h, b) ==
    LET codes1 == Bit(h.is_response) * 128 + OperationCode_to_u8(h.op_code) * 8
                  + Bit(h.is_authority) * 4 + Bit(h.is_truncated) * 2
                  + Bit(h.recursion_desired)
        codes2 == Bit(h.recursion_available) * 128 + ResponseCode_to_u8(h.resp_code)
    IN  Bytes_write_u16(Bytes_write_u16(Bytes_write_u16(Bytes_write_u16(
            Bytes_write(Bytes_write(Bytes_write_u16(b, h.id), codes1), codes2),
            h.question_count), h.answer_count), h.authority_count),
            h.additional_count)

\* Header::from_bytes
Header_from_bytes(b) ==
    Try(Bytes_read_u16(b), LAMBDA id :
    Try(Bytes_read(id.bytes), LAMBDA byte1 :
    Try(OperationCode_from_u8((byte1.val \div 8) % 16), LAMBDA op_code :
    Try(Bytes_read(byte1.bytes), LAMBDA byte2 :
    Try(ResponseCode_from_u8(byte2.val % 16), LAMBDA resp_code :
    Try(Bytes_read_u16(byte2.bytes), LAMBDA qd :
    Try(Bytes_read_u16(qd.bytes), LAMBDA an :
    Try(Bytes_read_u16(an.bytes), LAMBDA ns :
    Try(Bytes_read_u16(ns.bytes), LAMBDA ar :
    [ok |-> TRUE, bytes |-> ar.bytes,
     val |-> [id |-> id.val,
              is_response |-> (byte1.val \div 128) % 2 = 1,
              op_code |-> op_code.val,
              is_authority |-> (byte1.val \div 4) % 2 = 1,
              is_truncated |-> (byte1.val \div 2) % 2 = 1,
              recursion_desired |-> byte1.val % 2 = 1,
              recursion_available |-> (byte2.val \div 128) % 2 = 1,
              resp_code |-> resp_code.val,
              question_count |-> qd.val, answer_count |-> an.val,
              authority_count |-> ns.val,
              additional_count |-> ar.val]])))))))))

\* Question::from_bytes and Question::to_bytes
Question_from_bytes(b) ==
    Try(Name_from_bytes(b), LAMBDA name :
    Try(Bytes_read_u16(name.bytes), LAMBDA t :
    Try(QuestionType_from_u16(t.val), LAMBDA q_type :
    Try(Bytes_read_u16(t.bytes), LAMBDA c :
    Try(QuestionClass_from_u16(c.val), LAMBDA q_class :
    [ok |-> TRUE, bytes |-> c.bytes,
     val |-> [name |-> name.val, q_type |-> q_type.val,
              q_class |-> q_class.val]])))))

Question_to_bytes(q, b) ==
    Bytes_write_u16(
        Bytes_write_u16(Name_to_bytes(q.name, b), QuestionType_code(q.q_type)),
        QuestionClass_to_u16(q.q_class))

\* (0..count).map(|_| Question::from_bytes(bytes)).collect()
RECURSIVE Questions_from_bytes(_, _, _)
Questions_from_bytes(b, count, acc) ==
    IF count = 0 THEN [ok |-> TRUE, val |-> acc, bytes |-> b]
    ELSE Try(Question_from_bytes(b), LAMBDA q :
         Questions_from_bytes(q.bytes, count - 1, Append(acc, q.val)))

\* (0..count).map(|_| Record::from_bytes(bytes)).collect()
RECURSIVE Records_from_bytes(_, _, _)
Records_from_bytes(b, count, acc) ==
    IF count = 0 THEN [ok |-> TRUE, val |-> acc, bytes |-> b]
    ELSE Try(Record_from_bytes(b), LAMBDA r :
         Records_from_bytes(r.bytes, count - 1, Append(acc, r.val)))

\* Message::from_bytes
Message_from_bytes(b) ==
    Try(Header_from_bytes(b), LAMBDA header :
    Try(Questions_from_bytes(header.bytes, header.val.question_count, <<>>),
        LAMBDA questions :
    Try(Records_from_bytes(questions.bytes, header.val.answer_count, <<>>),
        LAMBDA answers :
    Try(Records_from_bytes(answers.bytes, header.val.authority_count, <<>>),
        LAMBDA authority :
    Try(Records_from_bytes(authority.bytes, header.val.additional_count, <<>>),
        LAMBDA additional :
    [ok |-> TRUE, bytes |-> additional.bytes,
     val |-> [header |-> header.val, questions |-> questions.val,
              answer_records |-> answers.val,
              authority_records |-> authority.val,
              additional_records |-> additional.val]])))))

\* `for question in &self.questions { question.to_bytes(bytes) }`
RECURSIVE Questions_to_bytes(_, _)
Questions_to_bytes(qs, b) ==
    IF qs = <<>> THEN b
    ELSE Questions_to_bytes(Tail(qs), Question_to_bytes(Head(qs), b))

\* `for record in &self.answer_records { record.to_bytes(bytes) }`
RECURSIVE Records_to_bytes(_, _)
Records_to_bytes(rs, b) ==
    IF rs = <<>> THEN b
    ELSE Records_to_bytes(Tail(rs), Record_to_bytes(Head(rs), b))

\* Message::to_bytes
Message_to_bytes(m, b) ==
    Records_to_bytes(m.additional_records,
        Records_to_bytes(m.authority_records,
            Records_to_bytes(m.answer_records,
                Questions_to_bytes(m.questions, Header_to_bytes(m.header, b)))))

(***************************************************************************)
(* The zones and the queries of the lookup runs.                           *)
(***************************************************************************)
RootName == <<RootLabel>>

Name_a == <<la, RootLabel>>

Name_ba == <<lb, la, RootLabel>>

Name_ca == <<lc, la, RootLabel>>

Name_star == <<Star, RootLabel>>

Name_star_a == <<Star, la, RootLabel>>

Rec_A(name, addr) ==
    [kind |-> "A", name |-> name, class |-> "In", ttl |-> U32_of(0, 60),
     addr |-> addr]

Rec_Ns(name, host) ==
    [kind |-> "Ns", name |-> name, class |-> "In", ttl |-> U32_of(0, 60),
     host |-> host]

Rec_Cname(name, host) ==
    [kind |-> "Cname", name |-> name, class |-> "In", ttl |-> U32_of(0, 60),
     host |-> host]

SeqsUpTo(S, n) == UNION {[1..k -> S] : k \in 0..n}

ZoneNames == {Name_a, Name_ba, Name_star, Name_star_a}

ZoneRecords ==
    {Rec_A(n, U32_of(2560, 1)) : n \in ZoneNames}
    \cup {Rec_Ns(n, Name_ca) : n \in ZoneNames \cup {RootName}}
    \cup {Rec_Cname(n, Name_a) : n \in ZoneNames}
    \cup {Rec_Cname(Name_ba, Name_ca)}

Zones == [name : {RootName}, records : SeqsUpTo(ZoneRecords, MaxZoneLen)]

QNames == {RootName, Name_a, Name_ba, Name_ca}

QTypes == {"A", "NS", "CNAME", "TXT", "ALL"}

\* the headers a query arrives with: a plain client query, and one whose
\* flags and response code are already set
QueryHeaders ==
    {[Header_default EXCEPT !.id = 4660, !.recursion_desired = TRUE],
     [Header_default EXCEPT !.id = 7, !.is_response = TRUE,
                            !.is_authority = TRUE, !.resp_code = "Refused"]}

\* the record sections a query arrives with
QuerySections ==
    {[an |-> <<>>, ns |-> <<>>, ar |-> <<>>],
     [an |-> <<Rec_A(Name_ca, U32_of(0, 1))>>, ns |-> <<>>, ar |-> <<>>],
     [an |-> <<>>, ns |-> <<Rec_Ns(Name_ca, Name_a)>>, ar |-> <<Rec_A(Name_a, U32_of(0, 2))>>]}

\* a message as Message::from_bytes builds it: each count is the length of
\* its section
MakeQuery(h, op, questions, sec) ==
    [header |-> [h EXCEPT !.op_code = op,
                          !.question_count = Len(questions),
                          !.answer_count = Len(sec.an),
                          !.authority_count = Len(sec.ns),
                          !.additional_count = Len(sec.ar)],
     questions |-> questions, answer_records |-> sec.an,
     authority_records |-> sec.ns, additional_records |-> sec.ar]

Q1(n, t) == [name |-> n, q_type |-> t, q_class |-> "In"]

Queries ==
    {MakeQuery(h, "Query", <<Q1(n, t)>>, sec) :
        h \in QueryHeaders, n \in QNames, t \in QTypes, sec \in QuerySections}
    \cup {MakeQuery(h, op, <<Q1(Name_a, "A")>>, sec) :
        h \in QueryHeaders, op \in {"InverseQuery", "Status"}, sec \in QuerySections}
    \cup {MakeQuery(h, op, <<>>, sec) :
        h \in QueryHeaders, op \in {"Query", "InverseQuery", "Status"},
        sec \in {s \in QuerySections : s.ns = <<>>}}
    \cup {MakeQuery(h, "Query", <<Q1(Name_ba, "A"), Q1(Name_a, "NS")>>,
                    [an |-> <<>>, ns |-> <<>>, ar |-> <<>>]) : h \in QueryHeaders}

NoResult == [outcome |-> "none"]

(***************************************************************************)
(* The receive loop of Server::start over decoded messages: a query is     *)
(* received, served, and its response sent; a panic ends the process.      *)
(***************************************************************************)
Init ==
    /\ zone \in Zones
    /\ pc = "recv"
    /\ query = Message_new
    /\ result = NoResult
    /\ msg = Message_new
    /\ wire = <<>>
    /\ decoded = NoResult
    /\ out = <<>>
    /\ arg = NoResult
    /\ ret = NoResult

Receive(q) ==
    /\ pc = "recv"
    /\ query' = q
    /\ result' = NoResult
    /\ pc' = "serve"
    /\ UNCHANGED <<zone, msg, wire, decoded, out, arg, ret>>

Serve ==
    /\ pc = "serve"
    /\ result' = serve(zone, query)
    /\ pc' = IF result'.outcome = "panic" THEN "crashed" ELSE "send"
    /\ UNCHANGED <<zone, query, msg, wire, decoded, out, arg, ret>>

Send ==
    /\ pc = "send"
    /\ pc' = "recv"
    /\ query' = Message_new
    /\ result' = NoResult
    /\ UNCHANGED <<zone, msg, wire, decoded, out, arg, ret>>

Next ==
    \/ \E q \in Queries : Receive(q)
    \/ Serve
    \/ Send

Spec == Init /\ [][Next]_vars

(***************************************************************************)
(* The messages of the codec runs: every record kind, names that share     *)
(* suffixes within and across the sections, and messages long enough for   *)
(* a name to be first written beyond the reach of a pointer.               *)
(***************************************************************************)
Rec_Host(kind, name, host) ==
    [kind |-> kind, name |-> name, class |-> "In", ttl |-> U32_of(0, 3600),
     host |-> host]

Rec_Soa(name, origin, mailbox) ==
    [kind |-> "Soa", name |-> name, class |-> "In", ttl |-> U32_of(0, 0),
     origin |-> origin, mailbox |-> mailbox, version |-> U32_of(0, 1),
     refresh |-> U32_of(1, 0), retry |-> U32_of(65535, 65535),
     expire |-> U32_of(0, 0), minimum |-> U32_of(0, 256)]

Rec_Null(name, data) ==
    [kind |-> "Null", name |-> name, class |-> "In", ttl |-> U32_of(0, 60),
     data |-> data]

Rec_Wks(name, data) ==
    [kind |-> "Wks", name |-> name, class |-> "In", ttl |-> U32_of(0, 60),
     addr |-> U32_of(32512, 1), protocol |-> 6, data |-> data]

Rec_Hinfo(name, cpu, os) ==
    [kind |-> "Hinfo", name |-> name, class |-> "Ch", ttl |-> U32_of(0, 60),
     cpu |-> cpu, os |-> os]

Rec_Minfo(name, r_mailbox, e_mailbox) ==
    [kind |-> "Minfo", name |-> name, class |-> "In", ttl |-> U32_of(0, 60),
     r_mailbox |-> r_mailbox, e_mailbox |-> e_mailbox]

Rec_Mx(name, priority, host) ==
    [kind |-> "Mx", name |-> name, class |-> "In", ttl |-> U32_of(0, 60),
     priority |-> priority, host |-> host]

Rec_Txt(name, content) ==
    [kind |-> "Txt", name |-> name, class |-> "Hs", ttl |-> U32_of(65535, 65535),
     content |-> content]

Rec_Aaaa(name, addr) ==
    [kind |-> "Aaaa", name |-> name, class |-> "In", ttl |-> U32_of(0, 60),
     addr |-> addr]

\* the texts "hi" and "é"
Text_hi == <<104, 105>>

Text_e_acute == <<195, 169>>

\* ::1
Addr6_loopback == [i \in 1..16 |-> IF i = 16 THEN 1 ELSE 0]

CodecRecords ==
    {Rec_A(Name_a, U32_of(2560, 1)), Rec_A(Name_ba, U32_of(65535, 65535)),
     Rec_Host("Ns", Name_a, Name_ca), Rec_Host("Md", RootName, Name_ba),
     Rec_Host("Mf", Name_ca, Name_ca), Rec_Host("Cname", Name_ba, Name_a),
     Rec_Host("Mb", Name_a, RootName), Rec_Host("Mg", Name_star_a, Name_ba),
     Rec_Host("Mr", Name_ba, Name_ba), Rec_Host("Ptr", Name_ca, Name_a),
     Rec_Soa(Name_a, Name_ba, Name_ca),
     Rec_Null(Name_ca, <<>>), Rec_Null(Name_a, <<0, 192, 12>>),
     Rec_Wks(Name_a, <<1, 2>>),
     Rec_Hinfo(Name_ba, Text_hi, Text_e_acute),
     Rec_Minfo(Name_ca, Name_a, Name_ba),
     Rec_Mx(Name_a, 10, Name_ba),
     Rec_Txt(Name_a, Text_hi), Rec_Txt(RootName, <<>>),
     Rec_Aaaa(Name_ca, Addr6_loopback)}

\* the ways a list of records is laid out over the three record sections
Splits(rs) ==
    LET n == Len(rs) IN
    {[an |-> SubSeq(rs, 1, c[1]), ns |-> SubSeq(rs, c[1] + 1, c[2]),
      ar |-> SubSeq(rs, c[2] + 1, n)] :
        c \in {<<n, n>>, <<0, n>>, <<Min(1, n), Min(2, n)>>}}

CodecQuestions ==
    {<<>>,
     <<[name |-> Name_ba, q_type |-> "MX", q_class |-> "In"]>>,
     <<[name |-> RootName, q_type |-> "ALL", q_class |-> "Any"],
       [name |-> Name_a, q_type |-> "AXFR", q_class |-> "Ch"]>>}

\* a query header and a response header with every flag set
Header_query == [Header_default EXCEPT !.id = 4660, !.recursion_desired = TRUE]

Header_flags ==
    [Header_default EXCEPT !.id = 65535, !.is_response = TRUE,
                           !.is_authority = TRUE, !.is_truncated = TRUE,
                           !.recursion_desired = TRUE,
                           !.recursion_available = TRUE,
                           !.resp_code = "Refused"]

\* a record whose data alone is longer than a pointer can reach over
BigData == [i \in 1..MaxNullLen |-> 0]

NoSections == [an |-> <<>>, ns |-> <<>>, ar |-> <<>>]

\* messages whose counts are the sizes of their sections
CountedMessages ==
    {MakeQuery(Header_query, "Query", <<>>, sec) :
        sec \in UNION {Splits(rs) : rs \in SeqsUpTo(CodecRecords, MaxRecords)}}
    \cup {MakeQuery(Header_flags, op, qs, NoSections) :
            op \in {"Query", "InverseQuery", "Status"}, qs \in CodecQuestions}
    \cup {MakeQuery(Header_flags, "Query", qs, sec) :
            qs \in CodecQuestions,
            sec \in UNION {Splits(<<r>>) : r \in CodecRecords}}
    \cup {MakeQuery(Header_query, "Query", <<>>, sec) :
            sec \in {[NoSections EXCEPT !.an = <<Rec_Null(Name_a, BigData)>>],
                     [NoSections EXCEPT !.an = <<Rec_Null(RootName, BigData),
                                                 Rec_Host("Ns", Name_a, Name_a)>>],
                     [NoSections EXCEPT !.an = <<Rec_Null(Name_a, BigData)>>,
                                        !.ar = <<Rec_A(Name_ba, U32_of(0, 1))>>],
                     [NoSections EXCEPT !.an = <<Rec_Null(RootName, BigData)>>,
                                        !.ns = <<Rec_Host("Ns", Name_a, Name_ca)>>,
                                        !.ar = <<Rec_A(Name_ca, U32_of(0, 1))>>]}}

\* messages built on Message::new whose counts were left at zero
UncountedMessages ==
    {[Message_new EXCEPT !.answer_records = <<r>>] : r \in CodecRecords}

Messages == CountedMessages \cup UncountedMessages

(***************************************************************************)
(* One message through the codec: written into a fresh cursor, and the     *)
(* octets written read back.                                               *)
(***************************************************************************)
InitCodec ==
    /\ zone = [name |-> RootName, records |-> <<>>]
    /\ pc = "encode"
    /\ query = Message_new
    /\ result = NoResult
    /\ msg \in Messages
    /\ wire = <<>>
    /\ decoded = NoResult
    /\ out = <<>>
    /\ arg = NoResult
    /\ ret = NoResult

Encode ==
    /\ pc = "encode"
    /\ wire' = Bytes_used(Message_to_bytes(msg, Bytes_new))
    /\ pc' = "decode"
    /\ UNCHANGED <<zone, query, result, msg, decoded, out, arg, ret>>

Decode ==
    /\ pc = "decode"
    /\ decoded' = Let(Message_from_bytes(Bytes_from_buf(wire)), LAMBDA m :
                      IF m.ok THEN [outcome |-> "ok", message |-> m.val]
                      ELSE [outcome |-> "panic"])
    /\ pc' = "done"
    /\ UNCHANGED <<zone, query, result, msg, wire, out, arg, ret>>

NextCodec ==
    \/ Encode
    \/ Decode

CodecSpec == InitCodec /\ [][NextCodec]_vars

(***************************************************************************)
(* Octet strings as they arrive from the network: the encodings of the     *)
(* messages above and strings no encoder of this program wrote, some of    *)
(* them malformed.                                                         *)
(***************************************************************************)
\* the octets Message::to_bytes writes into a fresh cursor
Wire(m) == Bytes_used(Message_to_bytes(m, Bytes_new))

\* the twelve octets of a query header with the given counts
HeaderOctets(qd, an) ==
    Bytes_used(Header_to_bytes([Header_query EXCEPT !.question_count = qd,
                                                    !.answer_count = an],
                               Bytes_new))

\* type, class IN and ttl 60 of a record; type and class IN of a question
Fixed(r_type) == <<0, r_type, 0, 1, 0, 0, 0, 60>>

QFixed(q_type) == <<0, q_type, 0, 1>>

\* rdlength 4 and the address 10.0.0.1
RdataA == <<0, 4, 10, 0, 0, 1>>

\* a NULL record of `.` whose data are the octets of the name `a.`, and an
\* A record whose owner is a pointer to these data (offset 23)
Wire_PointerIntoData ==
    HeaderOctets(0, 2) \o <<0>> \o Fixed(10) \o <<0, 3, 1, 97, 0>>
        \o <<192, 23>> \o Fixed(1) \o RdataA

\* two A records: the owner of the first is the one label "a.b", the owner
\* of the second the two labels "a" and "b"
Wire_DotLabel ==
    HeaderOctets(0, 2) \o <<3, 97, 46, 98, 0>> \o Fixed(1) \o RdataA
        \o <<1, 97, 1, 98, 0>> \o Fixed(1) \o RdataA

\* a NULL record of MaxNullLen data octets, then `a. NS a.` with both names
\* written in full
Wire_Far ==
    HeaderOctets(0, 2) \o <<0>> \o Fixed(10) \o U16_to_be_bytes(MaxNullLen)
        \o BigData \o <<1, 97, 0>> \o Fixed(2) \o <<0, 3, 1, 97, 0>>

\* a question `b.a.` whose tail is a pointer to the name `a.` written in the
\* NULL record that follows it: the pointer points forward
Wire_Forward ==
    HeaderOctets(1, 0) \o <<1, 98, 192, 20>> \o QFixed(1) \o <<1, 97, 0>>

\* a question whose name is a pointer to itself
Wire_Loop == HeaderOctets(1, 0) \o <<192, 12>> \o QFixed(1)

\* a question `a.`, an A record of `b.a.` whose tail is a pointer to the
\* question name (offset 12), and an A record whose owner is a pointer to
\* the owner of the first (offset 19): two hops
Wire_TwoHops ==
    HeaderOctets(1, 2) \o <<1, 97, 0>> \o QFixed(1)
        \o <<1, 98, 192, 12>> \o Fixed(1) \o RdataA
        \o <<192, 19>> \o Fixed(1) \o RdataA

\* a question whose name points forward to a pointer that points back to it
Wire_Cycle ==
    HeaderOctets(1, 1) \o <<192, 18>> \o QFixed(1) \o <<192, 12>> \o Fixed(1)
        \o RdataA

\* a record of type 99, a record of class 9, a question of type 99
Wire_UnknownType == HeaderOctets(0, 1) \o <<0>> \o Fixed(99) \o <<0, 0>>

Wire_UnknownClass ==
    HeaderOctets(0, 1) \o <<0, 0, 1, 0, 9, 0, 0, 0, 60>> \o RdataA

Wire_UnknownQType == HeaderOctets(1, 0) \o <<0>> \o QFixed(99)

\* headers with opcode 15 and with rcode 15
Wire_UnknownOpcode == <<18, 52, 120, 0, 0, 0, 0, 0, 0, 0, 0, 0>>

Wire_UnknownRcode == <<18, 52, 0, 15, 0, 0, 0, 0, 0, 0, 0, 0>>

\* a header cut short, a header announcing a question that is not there, a
\* record whose data end before its rdlength
Wire_ShortHeader == SubSeq(HeaderOctets(0, 0), 1, 11)

Wire_NoQuestion == HeaderOctets(1, 0)

Wire_ShortData == HeaderOctets(0, 1) \o <<0>> \o Fixed(10) \o <<0, 9, 1, 2>>

\* a label of 63 octets
Wire_Label63 ==
    HeaderOctets(1, 0) \o <<63>> \o [i \in 1..63 |-> 97] \o <<0>> \o QFixed(1)

Zeros(n) == [i \in 1..n |-> 0]

MalformedWires ==
    {Wire_Forward, Wire_Loop, Wire_Cycle, Wire_UnknownType, Wire_UnknownClass,
     Wire_UnknownQType, Wire_UnknownOpcode, Wire_UnknownRcode,
     Wire_ShortHeader, Wire_NoQuestion, Wire_ShortData, Wire_Label63}

CraftedWires ==
    {Wire_PointerIntoData, Wire_DotLabel, Wire_Far, Wire_TwoHops}

\* the encodings of the messages with at most one record, bare and followed
\* by octets that are not part of the message
EncodedWires ==
    {Wire(MakeQuery(Header_flags, op, qs, sec)) :
        op \in {"Query", "Status"}, qs \in CodecQuestions,
        sec \in {NoSections} \cup UNION {Splits(<<r>>) : r \in CodecRecords}}

ByteStrings ==
    EncodedWires \cup {w \o Zeros(3) : w \in EncodedWires}
        \cup CraftedWires \cup MalformedWires

(***************************************************************************)
(* One octet string through the codec: read, the message read written      *)
(* into a fresh cursor, and the octets written read again.                 *)
(***************************************************************************)
\* Message::from_bytes on a cursor over the octets, as an outcome
Decoding(octets) ==
    Let(Message_from_bytes(Bytes_from_buf(octets)), LAMBDA m :
        IF m.ok THEN [outcome |-> "ok", message |-> m.val]
        ELSE [outcome |-> "panic"])

InitRecode ==
    /\ zone = [name |-> RootName, records |-> <<>>]
    /\ pc = "decode_in"
    /\ query = Message_new
    /\ result = NoResult
    /\ msg = Message_new
    /\ wire \in ByteStrings
    /\ decoded = NoResult
    /\ out = <<>>
    /\ arg = NoResult
    /\ ret = NoResult

DecodeIn ==
    /\ pc = "decode_in"
    /\ decoded' = Decoding(wire)
    /\ pc' = IF decoded'.outcome = "ok" THEN "reencode" ELSE "crashed"
    /\ UNCHANGED <<zone, query, result, msg, wire, out, arg, ret>>

Reencode ==
    /\ pc = "reencode"
    /\ out' = Wire(decoded.message)
    /\ pc' = "decode_out"
    /\ UNCHANGED <<zone, query, result, msg, wire, decoded, arg, ret>>

DecodeOut ==
    /\ pc = "decode_out"
    /\ ret' = Decoding(out)
    /\ pc' = "done"
    /\ UNCHANGED <<zone, query, result, msg, wire, decoded, out, arg>>

NextRecode ==
    \/ DecodeIn
    \/ Reencode
    \/ DecodeOut

RecodeSpec == InitRecode /\ [][NextRecode]_vars

(***************************************************************************)
(* The receive loop of Server::start over datagrams (src/src/server.rs):   *)
(* a datagram is received into a zeroed buffer, and the buffer is decoded, *)
(* served, and the response encoded and sent.  A panic ends the process.   *)
(***************************************************************************)
\* the length of query_buffer
BufLen == 512

\* `let mut query_buffer = [0; 512]; socket.recv_from(&mut query_buffer)`:
\* the datagram at the head of the buffer, cut at its end, zeros behind it
RecvBuffer(datagram) ==
    [i \in 1..BufLen |-> IF i <= Len(datagram) THEN datagram[i] ELSE 0]

ServedZones == [name : {RootName}, records : SeqsUpTo(ZoneRecords, 1)]

\* the queries a resolver sends, as octets
QueryWires ==
    {Wire(MakeQuery(Header_query, "Query", <<Q1(n, t)>>, NoSections)) :
        n \in QNames, t \in {"A", "NS", "TXT"}}
    \cup {Wire(MakeQuery(Header_query, op, <<>>, NoSections)) :
            op \in {"Query", "Status"}}

Datagrams == QueryWires \cup CraftedWires \cup MalformedWires

InitServer ==
    /\ zone \in ServedZones
    /\ pc = "recv"
    /\ query = Message_new
    /\ result = NoResult
    /\ msg = Message_new
    /\ wire = <<>>
    /\ decoded = NoResult
    /\ out = <<>>
    /\ arg = NoResult
    /\ ret = NoResult

\* arg keeps the datagram as it arrived
RecvFrom(datagram) ==
    /\ pc = "recv"
    /\ wire' = RecvBuffer(datagram)
    /\ arg' = [outcome |-> "datagram", octets |-> datagram]
    /\ query' = Message_new
    /\ result' = NoResult
    /\ decoded' = NoResult
    /\ out' = <<>>
    /\ pc' = "handle"
    /\ UNCHANGED <<zone, msg, ret>>

\* the body of the loop behind recv_from; out is what send_to sends
Handle ==
    /\ pc = "handle"
    /\ \E d \in {Decoding(wire)} :
        /\ decoded' = d
        /\ IF d.outcome = "panic"
           THEN pc' = "crashed" /\ UNCHANGED <<query, result, out>>
           ELSE \E r \in {serve(zone, d.message)} :
                    /\ query' = d.message
                    /\ result' = r
                    /\ IF r.outcome = "panic"
                       THEN pc' = "crashed" /\ UNCHANGED out
                       ELSE pc' = "recv" /\ out' = Wire(r.response)
    /\ UNCHANGED <<zone, msg, wire, arg, ret>>

NextServer ==
    \/ \E datagram \in Datagrams : RecvFrom(datagram)
    \/ Handle

ServerSpec == InitServer /\ [][NextServer]_vars

\* the loop is sequential: once a datagram is received its handling runs
ServerLive == ServerSpec /\ WF_vars(Handle)

(***************************************************************************)
(* The same loop with the peers that send the datagrams.  arg is the       *)
(* datagram under way with the address recv_from returned for it, ret the  *)
(* history of the socket: the datagrams received and sent, in order.       *)
(***************************************************************************)
MaxDatagrams == 3

Peers == {"peer1", "peer2"}

\* two queries that differ in their id, a status request, an unknown type
PeerDatagrams ==
    {Wire(MakeQuery([Header_query EXCEPT !.id = i], "Query",
                    <<Q1(Name_ba, "A")>>, NoSections)) : i \in {1, 2}}
    \cup {Wire(MakeQuery(Header_query, "Status", <<>>, NoSections)),
          Wire_UnknownType}

\* the address the response goes to, whoever sent the query
Send_to_addr_fixed(addr) == "peer1"

\* the address handed to send_to: the one recv_from returned
Send_to_addr(addr) == addr

Received(log) == {i \in 1..Len(log) : log[i].event = "recv"}

InitLoop ==
    /\ zone \in ServedZones
    /\ pc = "recv"
    /\ query = Message_new
    /\ result = NoResult
    /\ msg = Message_new
    /\ wire = <<>>
    /\ decoded = NoResult
    /\ out = <<>>
    /\ arg = NoResult
    /\ ret = [outcome |-> "running", log |-> <<>>]

RecvFromPeer(datagram, addr) ==
    /\ pc = "recv"
    /\ Cardinality(Received(ret.log)) < MaxDatagrams
    /\ wire' = RecvBuffer(datagram)
    /\ arg' = [outcome |-> "datagram", octets |-> datagram, addr |-> addr]
    /\ ret' = [ret EXCEPT !.log = Append(@, [event |-> "recv", addr |-> addr,
                                             octets |-> datagram])]
    /\ query' = Message_new
    /\ result' = NoResult
    /\ decoded' = NoResult
    /\ out' = <<>>
    /\ pc' = "handle"
    /\ UNCHANGED <<zone, msg>>

\* the body of the loop behind recv_from, send_to included
HandlePeer ==
    /\ pc = "handle"
    /\ \E d \in {Decoding(wire)} :
        /\ decoded' = d
        /\ IF d.outcome = "panic"
           THEN pc' = "crashed" /\ UNCHANGED <<query, result, out, ret>>
           ELSE \E r \in {serve(zone, d.message)} :
                    /\ query' = d.message
                    /\ result' = r
                    /\ IF r.outcome = "panic"
                       THEN pc' = "crashed" /\ UNCHANGED <<out, ret>>
                       ELSE /\ pc' = "recv"
                            /\ out' = Wire(r.response)
                            /\ ret' = [ret EXCEPT !.log =
                                          Append(@, [event |-> "send",
                                                     addr |-> Send_to_addr(arg.addr),
                                                     octets |-> Wire(r.response)])]
    /\ UNCHANGED <<zone, msg, wire, arg>>

NextLoop ==
    \/ \E datagram \in PeerDatagrams, addr \in Peers :
          RecvFromPeer(datagram, addr)
    \/ HandlePeer

LoopSpec == InitLoop /\ [][NextLoop]_vars

(***************************************************************************)
(* The operations of Name (src/src/lib.rs), each run on its own input.     *)
(* arg is the call, ret the locals of the call while it runs and its       *)
(* outcome afterwards, out what the call has yielded so far: the targets   *)
(* the cursor was moved to by pointers, or the names of an iterator.       *)
(***************************************************************************)
\* octet strings with names at several offsets, read from every offset
NameWires ==
    {Wire_TwoHops, Wire_Loop, Wire_Forward, Wire_Cycle, Wire_PointerIntoData,
     Wire_DotLabel, Wire_Label63, Wire_NoQuestion}

NameCursors ==
    UNION {{[op |-> "from_bytes", octets |-> w, pos |-> p] : p \in 0..Len(w)} :
               w \in NameWires}

\* the labels names are made of: "a", "b", "a.b" (a label of the wire may
\* hold any octet, a dot included) and "*"
Label_dotted == <<97, Dot, 98>>

NameLabels == {la, lb, Label_dotted, Star}

MaxLabels == 3

\* the names of up to MaxLabels labels before the root label
ModelNames ==
    {n \in {Append(ls, RootLabel) : ls \in SeqsUpTo(NameLabels, MaxLabels)} :
        Name_from_labels(n).ok}

\* labels of 62, 61 and 2 octets, for label sequences of 253, 254 and 255
\* octets
LongLabel(n) == [i \in 1..n |-> 97]

LongLabelSeqs ==
    {<<LongLabel(62), LongLabel(62), LongLabel(62), LongLabel(62), RootLabel>>,
     <<LongLabel(62), LongLabel(62), LongLabel(62), LongLabel(61), la,
       RootLabel>>,
     <<LongLabel(62), LongLabel(62), LongLabel(62), LongLabel(61),
       LongLabel(2), RootLabel>>}

\* label sequences, those that are no name included
LabelSeqs ==
    SeqsUpTo(NameLabels \cup {RootLabel}, MaxLabels) \cup LongLabelSeqs

\* texts: pieces joined by dots, and a text with a piece of 63 octets
Texts ==
    {Join(ps) : ps \in SeqsUpTo({la, lb, Star, <<>>}, MaxLabels)}
        \cup {Join(<<LongLabel(63), la, <<>>>>)}

NameCalls ==
    NameCursors
        \cup {[op |-> "ancestors", name |-> n] : n \in ModelNames}
        \cup {[op |-> "suffixes", name |-> n] : n \in ModelNames}
        \cup {[op |-> "to_wildcard", name |-> n] : n \in ModelNames}
        \cup {[op |-> "from_labels", labels |-> ls] : ls \in LabelSeqs}
        \cup {[op |-> "from_str", text |-> t] : t \in Texts}
        \cup {[op |-> "visit_str", text |-> t] : t \in Texts}

Running(st) == [outcome |-> "running", st |-> st]

Outcome(r) ==
    IF r.ok THEN [outcome |-> "ok", val |-> r.val] ELSE [outcome |-> "panic"]

InitName ==
    /\ zone = [name |-> RootName, records |-> <<>>]
    /\ query = Message_new
    /\ result = NoResult
    /\ msg = Message_new
    /\ wire = <<>>
    /\ decoded = NoResult
    /\ out = <<>>
    /\ arg \in NameCalls
    /\ pc = arg.op
    /\ ret = CASE arg.op = "from_bytes" ->
                      Running(Name_from_bytes_locals(
                          Bytes_seek(Bytes_from_buf(arg.octets), arg.pos)))
               [] arg.op = "ancestors" -> Running(Ancestors_new(arg.name))
               [] arg.op = "suffixes" -> Running(Suffixes_new(arg.name))
               [] OTHER -> NoResult

\* one pass of the loop of Name::from_bytes
FromBytesPass ==
    /\ pc = "from_bytes"
    /\ \E r \in {Name_from_bytes_pass(ret.st)} :
          IF ~r.ok THEN pc' = "done" /\ ret' = Outcome(r) /\ UNCHANGED out
          ELSE /\ pc' = IF r.break THEN "from_bytes_end" ELSE "from_bytes"
               /\ ret' = Running(r.st)
               /\ out' = IF r.st.max # ret.st.max
                         THEN Append(out, r.st.bytes.pos) ELSE out
    /\ UNCHANGED <<zone, query, result, msg, wire, decoded, arg>>

\* the statements of Name::from_bytes after the loop
FromBytesEnd ==
    /\ pc = "from_bytes_end"
    /\ pc' = "done"
    /\ ret' = Outcome(Name_from_bytes_end(ret.st))
    /\ UNCHANGED <<zone, query, result, msg, wire, decoded, out, arg>>

\* a call of next on an iterator, an exhausted one included: the name it
\* yields is added to out
Yield(nxt) ==
    IF ~nxt.some
    THEN pc' = "exhausted" /\ ret' = Running(nxt.it) /\ UNCHANGED out
    ELSE IF ~nxt.item.ok
         THEN pc' = "done" /\ ret' = Outcome(nxt.item) /\ UNCHANGED out
    ELSE pc' = pc /\ ret' = Running(nxt.it) /\ out' = Append(out, nxt.item.val)

AncestorsNext ==
    /\ arg.op = "ancestors"
    /\ pc \in {"ancestors", "exhausted"}
    /\ Yield(Ancestors_next(ret.st))
    /\ UNCHANGED <<zone, query, result, msg, wire, decoded, arg>>

SuffixesNext ==
    /\ arg.op = "suffixes"
    /\ pc \in {"suffixes", "exhausted"}
    /\ Yield(Suffixes_next(ret.st))
    /\ UNCHANGED <<zone, query, result, msg, wire, decoded, arg>>

ToWildcard ==
    /\ pc = "to_wildcard"
    /\ pc' = "done"
    /\ ret' = Outcome(Name_to_wildcard(arg.name))
    /\ UNCHANGED <<zone, query, result, msg, wire, decoded, out, arg>>

FromLabels ==
    /\ pc = "from_labels"
    /\ pc' = "done"
    /\ ret' = Outcome(Name_from_labels(arg.labels))
    /\ UNCHANGED <<zone, query, result, msg, wire, decoded, out, arg>>

FromStr ==
    /\ pc = "from_str"
    /\ pc' = "done"
    /\ ret' = Outcome(Name_from_str(arg.text))
    /\ UNCHANGED <<zone, query, result, msg, wire, decoded, out, arg>>

VisitStr ==
    /\ pc = "visit_str"
    /\ pc' = "done"
    /\ \E r \in {Name_visit_str(arg.text)} :
          ret' = IF r.ok /\ r.is_err THEN [outcome |-> "err"] ELSE Outcome(r)
    /\ UNCHANGED <<zone, query, result, msg, wire, decoded, out, arg>>

NextName ==
    \/ FromBytesPass
    \/ FromBytesEnd
    \/ AncestorsNext
    \/ SuffixesNext
    \/ ToWildcard
    \/ FromLabels
    \/ FromStr
    \/ VisitStr

NameSpec == InitName /\ [][NextName]_vars

\* Name::from_bytes is sequential code: a call that can take its next step
\* takes it
NameLive == NameSpec /\ WF_vars(FromBytesPass) /\ WF_vars(FromBytesEnd)

(***************************************************************************)
(* The loading of the zone, Zone::from_toml (src/src/lib.rs) as called by  *)
(* Server::start (src/src/server.rs).  A zone document is the table its    *)
(* TOML text denotes: a name and a list of record tables, names as texts.  *)
(***************************************************************************)
Err == [ok |-> TRUE, is_err |-> TRUE]

Des(r, body(_)) ==
    CHOOSE y \in {IF ~x.ok THEN Panic ELSE IF x.is_err THEN Err
                  ELSE body(x.val) : x \in {r}} : TRUE

Deserialized(v) == [ok |-> TRUE, is_err |-> FALSE, val |-> v]

\* the derived Deserialize of Class: the variant names in upper case
Class_deserialize(text) ==
    CASE text = "IN" -> Deserialized("In")
      [] text = "CS" -> Deserialized("Cs")
      [] text = "CH" -> Deserialized("Ch")
      [] text = "HS" -> Deserialized("Hs")
      [] OTHER -> Err

\* the derived Deserialize of Record, tagged by `type`, for the tables of
\* address and name server records
Record_deserialize(t) ==
    Des(Name_visit_str(t.name), LAMBDA name :
    Des(Class_deserialize(t.class), LAMBDA class :
    CASE t.type = "A" ->
             Deserialized([kind |-> "A", name |-> name, class |-> class,
                           ttl |-> t.ttl, addr |-> t.addr])
      [] t.type = "NS" ->
             Des(Name_visit_str(t.host), LAMBDA host :
             Deserialized([kind |-> "Ns", name |-> name, class |-> class,
                           ttl |-> t.ttl, host |-> host]))
      [] OTHER -> Err))

RECURSIVE Records_deserialize(_, _)
Records_deserialize(tables, records) ==
    IF tables = <<>> THEN Deserialized(records)
    ELSE Des(Record_deserialize(Head(tables)), LAMBDA r :
         Records_deserialize(Tail(tables), Append(records, r)))

\* Zone::from_toml: the derived Deserialize of Zone, nothing else
Zone_from_toml(doc) ==
    Des(Name_visit_str(doc.name), LAMBDA name :
    Des(Records_deserialize(doc.records, <<>>), LAMBDA records :
    Deserialized([name |-> name, records |-> records])))

\* the texts "", "a", "a.", "b.a.", "c.", "*.a." and "."
Text(labels) == Join(labels)

ZoneNameTexts ==
    {Text(<<RootLabel>>), Text(<<la>>), Text(<<la, RootLabel>>),
     Text(<<lb, la, RootLabel>>), Text(<<lc, RootLabel>>)}

RecordNameTexts ==
    {Text(<<la, RootLabel>>), Text(<<lb, la, RootLabel>>),
     Text(<<lc, RootLabel>>), Text(<<Star, la, RootLabel>>),
     Text(<<RootLabel, RootLabel>>)}

RecordTables ==
    {[type |-> "A", name |-> n, class |-> "IN", ttl |-> U32_of(0, 60),
      addr |-> U32_of(2560, 1)] : n \in RecordNameTexts}
    \cup {[type |-> "NS", name |-> Text(<<la, RootLabel>>), class |-> c,
           ttl |-> U32_of(0, 60), host |-> Text(<<lc, RootLabel>>)] :
             c \in {"IN", "XX"}}

ZoneDocs ==
    {[op |-> "from_toml",
      doc |-> [name |-> n, records |-> rs]] :
        n \in ZoneNameTexts, rs \in SeqsUpTo(RecordTables, MaxZoneLen)}

ZoneQueries ==
    {MakeQuery(Header_query, "Query", <<Q1(n, "A")>>, NoSections) :
        n \in {Name_a, Name_ba, Name_ca}}

InitZone ==
    /\ arg \in ZoneDocs
    /\ pc = "load"
    /\ zone = [name |-> RootName, records |-> <<>>]
    /\ query = Message_new
    /\ result = NoResult
    /\ msg = Message_new
    /\ wire = <<>>
    /\ decoded = NoResult
    /\ out = <<>>
    /\ ret = NoResult

\* Server::start up to the loop: the document is parsed and unwrapped
LoadZone ==
    /\ pc = "load"
    /\ \E r \in {Zone_from_toml(arg.doc)} :
          IF r.ok /\ ~r.is_err
          THEN pc' = "listening" /\ zone' = r.val /\ ret' = [outcome |-> "ok"]
          ELSE /\ pc' = "failed"
               /\ ret' = [outcome |-> IF r.ok THEN "err" ELSE "panic"]
               /\ UNCHANGED zone
    /\ UNCHANGED <<query, result, msg, wire, decoded, out, arg>>

\* one turn of the loop on a query for an address
AnswerFromZone(q) ==
    /\ pc = "listening"
    /\ query' = q
    /\ result' = serve(zone, q)
    /\ pc' = IF result'.outcome = "panic" THEN "crashed" ELSE "listening"
    /\ UNCHANGED <<zone, msg, wire, decoded, out, arg, ret>>

NextZone ==
    \/ LoadZone
    \/ \E q \in ZoneQueries : AnswerFromZone(q)

ZoneSpec == InitZone /\ [][NextZone]_vars

(***************************************************************************)
(* The OPT pseudo-record (type 41).  src/src/cli.rs and src/src/minimal.rs *)
(* build and read Record::Opt; the variant and its wire form are written   *)
(* here after the specification of the record: the class field holds       *)
(* max_response_size, the ttl field extended_rcode << 24 | version << 16 | *)
(* dnssec_ok << 15, the rdata the option octets.                           *)
(***************************************************************************)
OptCode == 41

Rec_Opt(size, ercode, version, dnssec_ok, data) ==
    [kind |-> "Opt", name |-> RootName, max_response_size |-> size,
     extended_rcode |-> ercode, version |-> version, dnssec_ok |-> dnssec_ok,
     data |-> data]

\* the ttl field with the DNSSEC-OK flag one bit too low
Opt_ttl_low(r) ==
    U32_of(r.extended_rcode * 256 + r.version, Bit(r.dnssec_ok) * 16384)

\* the ttl field of an OPT record, as the two halves of the u32
Opt_ttl(r) ==
    U32_of(r.extended_rcode * 256 + r.version, Bit(r.dnssec_ok) * 32768)

Opt_to_bytes(r, b) ==
    Bytes_write_all(
        Bytes_write_u16(
            Bytes_write_u32(
                Bytes_write_u16(
                    Bytes_write_u16(Name_to_bytes(r.name, b), OptCode),
                    r.max_response_size),
                Opt_ttl(r)),
            U16(Len(r.data))),
        r.data)

Opt_from_bytes(b) ==
    Try(Name_from_bytes(b), LAMBDA name :
    Try(Bytes_read_u16(name.bytes), LAMBDA r_type :
    Try(Bytes_read_u16(r_type.bytes), LAMBDA size :
    Try(Bytes_read_u32(size.bytes), LAMBDA ttl :
    Try(Bytes_read_u16(ttl.bytes), LAMBDA rd_len :
    Try(Bytes_read_exact(rd_len.bytes, rd_len.val), LAMBDA data :
    IF r_type.val # OptCode \/ ~Name_is_root(name.val) THEN Panic
    ELSE [ok |-> TRUE, bytes |-> data.bytes,
          val |-> [kind |-> "Opt", name |-> name.val,
                   max_response_size |-> size.val,
                   extended_rcode |-> ttl.val[1] \div 256,
                   version |-> ttl.val[1] % 256,
                   dnssec_ok |-> (ttl.val[2] \div 32768) % 2 = 1,
                   data |-> data.val]]))))))

\* a record of any kind, OPT included
Record_to_bytes_edns(r, b) ==
    IF r.kind = "Opt" THEN Opt_to_bytes(r, b) ELSE Record_to_bytes(r, b)

Record_from_bytes_edns(b) ==
    Try(Name_from_bytes(b), LAMBDA name :
    Try(Bytes_read_u16(name.bytes), LAMBDA r_type :
    IF r_type.val = OptCode THEN Opt_from_bytes(b) ELSE Record_from_bytes(b)))

RECURSIVE Records_to_bytes_edns(_, _)
Records_to_bytes_edns(rs, b) ==
    IF rs = <<>> THEN b
    ELSE Records_to_bytes_edns(Tail(rs), Record_to_bytes_edns(Head(rs), b))

RECURSIVE Records_from_bytes_edns(_, _, _)
Records_from_bytes_edns(b, count, acc) ==
    IF count = 0 THEN [ok |-> TRUE, val |-> acc, bytes |-> b]
    ELSE Try(Record_from_bytes_edns(b), LAMBDA r :
         Records_from_bytes_edns(r.bytes, count - 1, Append(acc, r.val)))

\* Message::to_bytes and Message::from_bytes with the OPT record admitted
Message_to_bytes_edns(m, b) ==
    Records_to_bytes_edns(m.additional_records,
        Records_to_bytes_edns(m.authority_records,
            Records_to_bytes_edns(m.answer_records,
                Questions_to_bytes(m.questions, Header_to_bytes(m.header, b)))))

Message_from_bytes_edns(b) ==
    Try(Header_from_bytes(b), LAMBDA header :
    Try(Questions_from_bytes(header.bytes, header.val.question_count, <<>>),
        LAMBDA questions :
    Try(Records_from_bytes_edns(questions.bytes, header.val.answer_count, <<>>),
        LAMBDA answers :
    Try(Records_from_bytes_edns(answers.bytes, header.val.authority_count,
                                <<>>),
        LAMBDA authority :
    Try(Records_from_bytes_edns(authority.bytes,
                                header.val.additional_count, <<>>),
        LAMBDA additional :
    [ok |-> TRUE, bytes |-> additional.bytes,
     val |-> [header |-> header.val, questions |-> questions.val,
              answer_records |-> answers.val,
              authority_records |-> authority.val,
              additional_records |-> additional.val]])))))

\* the OPT records of the runs: sizes, extended codes and versions at both
\* ends of their ranges, the flag, no option and one option
OptRecords ==
    {Rec_Opt(size, ercode, version, dnssec_ok, data) :
        size \in {512, 4096, 65535}, ercode \in {0, 1, 255},
        version \in {0, 255}, dnssec_ok \in BOOLEAN,
        data \in {<<>>, <<0, 10, 0, 2, 171, 205>>}}

\* the messages that carry them: a query with the record alone in the
\* additional section, and a response with an address record before it
OptMessages ==
    {MakeQuery(Header_query, "Query", <<Q1(Name_ba, "A")>>,
               [an |-> <<>>, ns |-> <<>>, ar |-> <<r>>]) : r \in OptRecords}
    \cup {MakeQuery(Header_flags, "Query", <<Q1(Name_ba, "A")>>,
                    [an |-> <<Rec_A(Name_ba, U32_of(2560, 1))>>, ns |-> <<>>,
                     ar |-> <<Rec_A(Name_a, U32_of(2560, 2)), r>>]) :
              r \in OptRecords}

InitOpt ==
    /\ zone = [name |-> RootName, records |-> <<>>]
    /\ pc = "encode"
    /\ query = Message_new
    /\ result = NoResult
    /\ msg \in OptMessages
    /\ wire = <<>>
    /\ decoded = NoResult
    /\ out = <<>>
    /\ arg = NoResult
    /\ ret = NoResult

\* the message is encoded; out is the OPT record encoded on its own
EncodeOpt ==
    /\ pc = "encode"
    /\ wire' = Bytes_used(Message_to_bytes_edns(msg, Bytes_new))
    /\ out' = Bytes_used(Opt_to_bytes(
                  msg.additional_records[Len(msg.additional_records)],
                  Bytes_new))
    /\ pc' = "decode"
    /\ UNCHANGED <<zone, query, result, msg, decoded, arg, ret>>

\* both are decoded: the message into decoded, the record into ret
DecodeOpt ==
    /\ pc = "decode"
    /\ decoded' = Let(Message_from_bytes_edns(Bytes_from_buf(wire)), LAMBDA m :
                      IF m.ok THEN [outcome |-> "ok", message |-> m.val]
                      ELSE [outcome |-> "panic"])
    /\ ret' = Let(Opt_from_bytes(Bytes_from_buf(out)), LAMBDA r :
                  IF r.ok THEN [outcome |-> "ok", val |-> r.val]
                  ELSE [outcome |-> "panic"])
    /\ pc' = "done"
    /\ UNCHANGED <<zone, query, result, msg, wire, out, arg>>

NextOpt ==
    \/ EncodeOpt
    \/ DecodeOpt

OptSpec == InitOpt /\ [][NextOpt]_vars

(***************************************************************************)
(* The resolver client, main of src/src/cli.rs, with the two transports    *)
(* (src/src/udp.rs, src/src/tcp.rs).  arg is the command line, query the   *)
(* request, out what was written to the sockets in order, ret the locals:  *)
(* max_response_size, the response of each transport and the octets the    *)
(* name server wrote to the TCP stream behind the length.  result is the   *)
(* response main goes on with.                                             *)
(***************************************************************************)
EdnsSize == 4096

PlainSize == 512

\* the length the TCP response buffer is resized to
TcpBufLen == 512

Invocations ==
    [domain : {Name_ba, RootName}, q_type : {{}, {"TXT"}}, q_class : {{}},
     edns : BOOLEAN, tcp : BOOLEAN, udp : BOOLEAN]

\* Option::unwrap_or, an option being the set of what it holds
Unwrap_or(option, default) ==
    IF option = {} THEN default ELSE CHOOSE v \in option : TRUE

Max_response_size(edns) == IF edns THEN EdnsSize ELSE PlainSize

\* the request as main builds it before it picks a transport
Request(inv) ==
    [header |-> [Header_default EXCEPT !.recursion_desired = TRUE,
                                       !.question_count = 1],
     questions |-> <<[name |-> inv.domain,
                      q_type |-> Unwrap_or(inv.q_type, "A"),
                      q_class |-> Unwrap_or(inv.q_class, "In")]>>,
     answer_records |-> <<>>,
     authority_records |-> <<>>,
     additional_records |->
        IF inv.edns
        THEN <<Rec_Opt(Max_response_size(inv.edns), 0, 0, FALSE, <<>>)>>
        ELSE <<>>]

Request_bytes(request) == Bytes_used(Message_to_bytes_edns(request, Bytes_new))

\* Vec::resize(n, 0): cut at n, zeros up to n
Resize(v, n) == [i \in 1..n |-> IF i <= Len(v) THEN v[i] ELSE 0]

DecodingEdns(octets) ==
    Let(Message_from_bytes_edns(Bytes_from_buf(octets)), LAMBDA m :
        IF m.ok THEN [outcome |-> "ok", message |-> m.val]
        ELSE [outcome |-> "panic"])

\* the buffer UdpTransport::send decodes: max_response_size zeros with the
\* datagram received at their head
Udp_response_buf(size, datagram) == Resize(datagram, size)

\* what TcpTransport::send writes: the length, then the request
Tcp_request(octets) == U16_to_be_bytes(U16(Len(octets))) \o octets

\* the buffer TcpTransport::send decodes with every octet announced kept
Tcp_response_buf_whole(stream) ==
    SubSeq(stream, 3, 2 + stream[1] * 256 + stream[2])

\* the buffer TcpTransport::send decodes, from the octets of the stream
Tcp_response_buf(stream) ==
    Resize(SubSeq(stream, 3, 2 + stream[1] * 256 + stream[2]), TcpBufLen)

\* the transport main turns to after the UDP response, always TCP
After_udp_always(inv, response) == "tcp"

\* the transport main turns to after the UDP response, if any
After_udp(inv, response) ==
    IF ~inv.udp /\ response.header.is_truncated THEN "tcp" ELSE "done"

\* what a name server answers: a truncated response, an answer, an answer
\* with an OPT record, an answer longer than 512 octets, two octets, a
\* record of an unknown type
Response_truncated ==
    MakeQuery(Header_flags, "Query", <<Q1(Name_ba, "A")>>, NoSections)

Response_answer ==
    MakeQuery([Header_flags EXCEPT !.is_truncated = FALSE,
                                   !.resp_code = "Success"],
              "Query", <<Q1(Name_ba, "A")>>,
              [an |-> <<Rec_A(Name_ba, U32_of(2560, 1))>>, ns |-> <<>>,
               ar |-> <<>>])

Response_edns ==
    MakeQuery([Header_flags EXCEPT !.is_truncated = FALSE,
                                   !.resp_code = "Success"],
              "Query", <<Q1(Name_ba, "A")>>,
              [an |-> <<Rec_A(Name_ba, U32_of(2560, 1))>>, ns |-> <<>>,
               ar |-> <<Rec_Opt(PlainSize, 0, 0, FALSE, <<>>)>>])

Response_long ==
    MakeQuery([Header_flags EXCEPT !.is_truncated = FALSE,
                                   !.resp_code = "Success"],
              "Query", <<Q1(Name_ba, "A")>>,
              [an |-> <<Rec_Null(Name_ba, Zeros(TcpBufLen)),
                        Rec_A(Name_ba, U32_of(2560, 1))>>,
               ns |-> <<>>, ar |-> <<>>])

ServerPayloads ==
    {Request_bytes(m) : m \in {Response_truncated, Response_answer,
                               Response_edns, Response_long}}
    \cup {<<18, 52>>, Wire_UnknownType}

InitClient ==
    /\ zone = [name |-> RootName, records |-> <<>>]
    /\ pc = "build"
    /\ query = Message_new
    /\ result = NoResult
    /\ msg = Message_new
    /\ wire = <<>>
    /\ decoded = NoResult
    /\ out = <<>>
    /\ arg \in Invocations
    /\ ret = NoResult

\* main up to the choice of the transport
Build ==
    /\ pc = "build"
    /\ query' = Request(arg)
    /\ ret' = [outcome |-> "running",
               max_response_size |-> Max_response_size(arg.edns),
               udp |-> NoResult, tcp |-> NoResult, stream |-> <<>>]
    /\ pc' = IF arg.tcp THEN "tcp" ELSE "udp"
    /\ UNCHANGED <<zone, result, msg, wire, decoded, out, arg>>

\* UdpTransport::send up to recv_from
UdpSendTo ==
    /\ pc = "udp"
    /\ out' = Append(out, [transport |-> "udp",
                           octets |-> Request_bytes(query)])
    /\ pc' = "udp_recv"
    /\ UNCHANGED <<zone, query, result, msg, wire, decoded, arg, ret>>

\* UdpTransport::send from recv_from on, and main up to the next transport
UdpRecvFrom(datagram) ==
    /\ pc = "udp_recv"
    /\ wire' = Udp_response_buf(ret.max_response_size, datagram)
    /\ \E d \in {DecodingEdns(Udp_response_buf(ret.max_response_size,
                                               datagram))} :
        /\ decoded' = d
        /\ ret' = [ret EXCEPT !.udp = d]
        /\ IF d.outcome = "panic"
           THEN pc' = "crashed" /\ UNCHANGED result
           ELSE /\ pc' = After_udp(arg, d.message)
                /\ result' = IF After_udp(arg, d.message) = "done"
                             THEN d ELSE result
    /\ UNCHANGED <<zone, query, msg, out, arg>>

\* TcpTransport::send up to the first read
TcpWrite ==
    /\ pc = "tcp"
    /\ out' = Append(out, [transport |-> "tcp",
                           octets |-> Tcp_request(Request_bytes(query))])
    /\ pc' = "tcp_read"
    /\ UNCHANGED <<zone, query, result, msg, wire, decoded, arg, ret>>

\* TcpTransport::send from the first read on; the name server has written
\* the length of its response and the response
TcpRead(payload) ==
    /\ pc = "tcp_read"
    /\ \E stream \in {Tcp_request(payload)} :
        /\ wire' = Tcp_response_buf(stream)
        /\ \E d \in {DecodingEdns(Tcp_response_buf(stream))} :
            /\ decoded' = d
            /\ ret' = [ret EXCEPT !.tcp = d, !.stream = stream]
            /\ IF d.outcome = "panic"
               THEN pc' = "crashed" /\ UNCHANGED result
               ELSE pc' = "done" /\ result' = d
    /\ UNCHANGED <<zone, query, msg, out, arg>>

NextClient ==
    \/ Build
    \/ UdpSendTo
    \/ \E datagram \in ServerPayloads : UdpRecvFrom(datagram)
    \/ TcpWrite
    \/ \E payload \in ServerPayloads : TcpRead(payload)

ClientSpec == InitClient /\ [][NextClient]_vars

(***************************************************************************)
(* Names written one after another into one cursor, as Message::to_bytes   *)
(* does with the names of its questions and records (src/src/lib.rs).      *)
(* arg is what is written: the octets that stand before the names in the   *)
(* cursor (header, fixed fields, record data) and the names; ret is the    *)
(* cursor; out is, for each name written, the offset it starts at and the  *)
(* octets Name::to_bytes wrote for it.                                     *)
(***************************************************************************)
Name_ab == <<la, lb, RootLabel>>

Name_dotted == <<Label_dotted, RootLabel>>

MaxNames == 3

WrittenNames ==
    {RootName, Name_a, Name_ba, Name_ca, Name_ab, Name_dotted}

\* nothing, the twelve octets of a header, a record's data that ends at 2^14
WrittenData == {<<>>, Zeros(12), BigData}

InitCompress ==
    /\ zone = [name |-> RootName, records |-> <<>>]
    /\ pc = "data"
    /\ query = Message_new
    /\ result = NoResult
    /\ msg = Message_new
    /\ wire = <<>>
    /\ decoded = NoResult
    /\ out = <<>>
    /\ arg \in [data : WrittenData, names : SeqsUpTo(WrittenNames, MaxNames)]
    /\ ret = [outcome |-> "running", bytes |-> Bytes_new]

\* Bytes::write_all of what precedes the names
WriteData ==
    /\ pc = "data"
    /\ ret' = [ret EXCEPT !.bytes = Bytes_write_all(ret.bytes, arg.data)]
    /\ pc' = IF arg.names = <<>> THEN "done" ELSE "names"
    /\ UNCHANGED <<zone, query, result, msg, wire, decoded, out, arg>>

\* Name::to_bytes of the next name
WriteName ==
    /\ pc = "names"
    /\ \E b \in {Name_to_bytes(arg.names[Len(out) + 1], ret.bytes)} :
        /\ ret' = [ret EXCEPT !.bytes = b]
        /\ out' = Append(out, [name |-> arg.names[Len(out) + 1],
                               start |-> ret.bytes.pos,
                               octets |-> SubSeq(b.buf, ret.bytes.pos + 1,
                                                 b.pos)])
    /\ pc' = IF Len(out) + 1 = Len(arg.names) THEN "done" ELSE "names"
    /\ UNCHANGED <<zone, query, result, msg, wire, decoded, arg>>

NextCompress ==
    \/ WriteData
    \/ WriteName

CompressSpec == InitCompress /\ [][NextCompress]_vars

(***************************************************************************)
(* Properties of the lookup.  They are stated over the zone as a list of   *)
(* records, without the walk of serve.                                     *)
(***************************************************************************)
\* serve has returned a response for the query
Returned == pc = "send"

\* serve has run on the query, whether it returned or panicked
Served == pc \in {"send", "crashed"}

HasQuestion == Len(query.questions) > 0

Q == query.questions[1].name

T == query.questions[1].q_type

Response == result.response

\* the records declared under a name, in declaration order
RecsAt(n) == SelectSeq(zone.records, LAMBDA r : r.name = n)

NsAt(n) == SelectSeq(zone.records, LAMBDA r : r.name = n /\ r.kind = "Ns")

CnamesAt(n) == SelectSeq(zone.records, LAMBDA r : r.name = n /\ r.kind = "Cname")

\* the set M of the exact matches of the question
Matches ==
    SelectSeq(zone.records,
              LAMBDA r : r.name = Q /\ (T = "ALL" \/ Record_code(r) = QuestionType_code(T)))

\* level i of the question name: 1 is the root, Len(Q) is Q itself
Level(i) == SubSeq(Q, Len(Q) - i + 1, Len(Q))

NoNsAbove == \A i \in 1..(Len(Q) - 1) : NsAt(Level(i)) = <<>>

\* the wildcard records a lookup at level i finds for the question's type
WildAt(i) ==
    SelectSeq(zone.records,
              LAMBDA r : r.name = <<Star>> \o Tail(Level(i))
                         /\ Record_code(r) = QuestionType_code(T))

\* level i is one at which a wildcard is captured and still held at the end
\* of the walk: not the root, no records at it or below it, a wildcard match
Holds(i) ==
    /\ i >= 2
    /\ WildAt(i) # <<>>
    /\ \A j \in i..Len(Q) : RecsAt(Level(j)) = <<>>

\* the deepest level at which a wildcard matches with no records on the way
Deepest == CHOOSE i \in 1..Len(Q) : Holds(i) /\ \A j \in (i + 1)..Len(Q) : ~Holds(j)

Renamed(records) == [i \in 1..Len(records) |-> [records[i] EXCEPT !.name = Q]]

QueryOp == query.header.op_code = "Query"

\* C1: a Query whose name holds records of the asked type (any record for
\* ALL), holds no CNAME and has no NS at a strict ancestor is answered with
\* Success, is_authority, exactly those records appended to the answers in
\* declaration order, and an untouched authority section.
C1_Case ==
    /\ Served /\ QueryOp /\ HasQuestion
    /\ NoNsAbove /\ CnamesAt(Q) = <<>> /\ Matches # <<>>

C1_ExactAnswer ==
    C1_Case =>
        /\ Returned
        /\ Response.header.resp_code = "Success"
        /\ Response.header.is_authority = TRUE
        /\ Response.answer_records = query.answer_records \o Matches
        /\ Response.authority_records = query.authority_records

C1_Witness ==
    /\ C1_Case /\ Returned /\ T = "ALL"
    /\ Len(Matches) = 2 /\ Matches[1] # Matches[2]
    /\ query.header.is_authority = FALSE

\* C2: a Query whose name holds a CNAME, with no NS at a strict ancestor, is
\* answered for every question type with the first CNAME of the name alone,
\* Success and is_authority; nothing else is added to any section.
C2_Case ==
    /\ Served /\ QueryOp /\ HasQuestion
    /\ NoNsAbove /\ CnamesAt(Q) # <<>>

C2_Cname ==
    C2_Case =>
        /\ Returned
        /\ Response.header.resp_code = "Success"
        /\ Response.header.is_authority = TRUE
        /\ Response.answer_records = Append(query.answer_records, CnamesAt(Q)[1])
        /\ Response.authority_records = query.authority_records
        /\ Response.additional_records = query.additional_records

C2_Witness ==
    /\ C2_Case /\ Returned /\ T = "A"
    /\ Len(CnamesAt(Q)) = 2 /\ CnamesAt(Q)[1] # CnamesAt(Q)[2]

\* C3: at the shallowest level A of the question name that holds NS records
\* (Q itself only when Q holds no CNAME and no exact match), serve returns
\* Success with is_authority = FALSE, the NS records of A appended to the
\* authority section and the answer section untouched.
C3_DelegationAt(i) ==
    /\ NsAt(Level(i)) # <<>>
    /\ \A j \in 1..(i - 1) : NsAt(Level(j)) = <<>>
    /\ (i = Len(Q) => CnamesAt(Q) = <<>> /\ Matches = <<>>)

C3_Delegation ==
    (Served /\ QueryOp /\ HasQuestion) =>
        \A i \in 1..Len(Q) :
            C3_DelegationAt(i) =>
                /\ Returned
                /\ Response.header.resp_code = "Success"
                /\ Response.header.is_authority = FALSE
                /\ Response.authority_records =
                       query.authority_records \o NsAt(Level(i))
                /\ Response.answer_records = query.answer_records

C3_Witness ==
    /\ Returned /\ QueryOp /\ HasQuestion
    /\ \E i \in 1..(Len(Q) - 1) : C3_DelegationAt(i)
    /\ CnamesAt(Q) # <<>>
    /\ query.header.is_authority = TRUE

\* C4: when no level of the question name holds an NS record, Q holds no
\* CNAME and no exact match, and a wildcard capture is held at the end of
\* the walk, the answers appended are the captured wildcard records under
\* the name Q, in declaration order, with Success and is_authority.
C4_Case ==
    /\ Served /\ QueryOp /\ HasQuestion
    /\ \A i \in 1..Len(Q) : NsAt(Level(i)) = <<>>
    /\ CnamesAt(Q) = <<>> /\ Matches = <<>>
    /\ \E i \in 1..Len(Q) : Holds(i)

C5_WildcardOnlyIfNoData ==
    (Returned /\ result.outcome = "WildcardAnswer") =>
        /\ \E i \in 2..Len(Q) : Holds(i)
        /\ Response.answer_records =
               query.answer_records \o Renamed(WildAt(Deepest))

\* a deeper capture replaced a shallower one
C5_Witness ==
    /\ Returned /\ result.outcome = "WildcardAnswer"
    /\ Deepest = 3 /\ Holds(2)
    /\ WildAt(2) # WildAt(3)

\* C6: a response to a Query carries NameError only if no record of the
\* zone is named Q.
C6_NameErrorOnlyIfAbsent ==
    (Returned /\ QueryOp /\ Response.header.resp_code = "NameError") =>
        RecsAt(Q) = <<>>

\* C7: a message whose op_code is not Query gets NotImplemented, with
\* is_response set and its four sections as they were.
C7_NotImplemented ==
    (Served /\ ~QueryOp) =>
        /\ Returned
        /\ Response.header.resp_code = "NotImplemented"
        /\ Response.header.is_response = TRUE
        /\ Response.questions = query.questions
        /\ Response.answer_records = query.answer_records
        /\ Response.authority_records = query.authority_records
        /\ Response.additional_records = query.additional_records

\* C8: every response serve returns has the id, the question section and the
\* question_count of its query, and is_response set.
C8_Frame ==
    Returned =>
        /\ Response.header.id = query.header.id
        /\ Response.questions = query.questions
        /\ Response.header.question_count = query.header.question_count
        /\ Response.header.is_response = TRUE

C8_Witness ==
    /\ Returned /\ result.outcome = "Delegation"
    /\ query.header.is_response = FALSE
    /\ Len(query.questions) = 2

\* C9: the counts of a response equal the lengths of its sections.
C9_Counts ==
    Returned =>
        /\ Response.header.answer_count = Len(Response.answer_records)
        /\ Response.header.authority_count = Len(Response.authority_records)
        /\ Response.header.additional_count = Len(Response.additional_records)

(***************************************************************************)
(* Properties of the codec.                                                *)
(***************************************************************************)
\* the message has been written and read back
RoundTripped == pc = "done"

SectionsOf(m) == m.answer_records \o m.authority_records \o m.additional_records

\* the header counts are the sizes of the sections
CountsMatch(m) ==
    /\ m.header.question_count = Len(m.questions)
    /\ m.header.answer_count = Len(m.answer_records)
    /\ m.header.authority_count = Len(m.authority_records)
    /\ m.header.additional_count = Len(m.additional_records)

\* a name the program can build: labels of fewer than 63 octets, fewer than
\* 255 octets in all, the root label last and only last
ValidName(n) ==
    /\ Name_from_labels(n).ok
    /\ \A i \in 1..Len(n) : Label_from_str(n[i]).ok

IsU32(v) == v \in (0..65535) \X (0..65535)

IsOctets(s) == \A i \in 1..Len(s) : s[i] \in 0..255

\* the payload of a record fits its wire form
ValidPayload(r) ==
    /\ ValidName(r.name)
    /\ IsU32(r.ttl)
    /\ CASE r.kind = "A" -> IsU32(r.addr)
         [] r.kind \in HostKinds -> ValidName(r.host)
         [] r.kind = "Soa" ->
              /\ ValidName(r.origin) /\ ValidName(r.mailbox)
              /\ \A v \in {r.version, r.refresh, r.retry, r.expire, r.minimum} :
                    IsU32(v)
         [] r.kind = "Null" -> IsOctets(r.data) /\ Len(r.data) < 65536
         [] r.kind = "Wks" ->
              /\ IsU32(r.addr) /\ r.protocol \in 0..255
              /\ IsOctets(r.data) /\ Len(r.data) + 5 < 65536
         [] r.kind = "Hinfo" ->
              /\ Utf8Valid(r.cpu) /\ Len(r.cpu) < 256
              /\ Utf8Valid(r.os) /\ Len(r.os) < 256
         [] r.kind = "Minfo" -> ValidName(r.r_mailbox) /\ ValidName(r.e_mailbox)
         [] r.kind = "Mx" -> r.priority \in 0..65535 /\ ValidName(r.host)
         [] r.kind = "Txt" -> Utf8Valid(r.content) /\ Len(r.content) < 65281
         [] r.kind = "Aaaa" -> IsOctets(r.addr) /\ Len(r.addr) = 16

ValidPayloads(m) ==
    /\ \A i \in 1..Len(m.questions) : ValidName(m.questions[i].name)
    /\ \A i \in 1..Len(SectionsOf(m)) : ValidPayload(SectionsOf(m)[i])

\* C10: a message whose header counts equal its section sizes and whose
\* records carry valid payloads, written into a fresh cursor and read back
\* from the octets written, is the message it was: the same header, the same
\* questions, the same records in the same sections in the same order.
C10_RoundTrip ==
    (RoundTripped /\ CountsMatch(msg) /\ ValidPayloads(msg))
        => (decoded.outcome = "ok" /\ decoded.message = msg)

\* the octet string was read as a message, written again and read again
Recoded == pc = "done" /\ decoded.outcome = "ok"

\* C11: for an octet string that decodes to a message, the octets written
\* for that message are not more than the octets read, and they decode to
\* the same message.
C11_Recode ==
    Recoded =>
        /\ Len(out) <= Len(wire)
        /\ ret.outcome = "ok"
        /\ ret.message = decoded.message

\* C12: serve does not fault on a message the decoder can produce, a message
\* without a question and a message with another opcode than Query
\* included: whenever serve has run it has returned a response.
C12_NoFault == Served => (Returned /\ result.outcome # "panic")

(***************************************************************************)
(* Properties of the receive loop.                                         *)
(***************************************************************************)
\* the datagram received last has been handled
Handled == pc \in {"recv", "crashed"} /\ decoded # NoResult

\* the datagram received last is one of the malformed octet strings
MalformedDatagram == arg.outcome = "datagram" /\ arg.octets \in MalformedWires

\* C13: the receive loop does not end because of a request: after every
\* datagram received, one that fails to decode included, the server is
\* eventually waiting for the next datagram again.
C13_LoopContinues == (pc = "handle") ~> (pc = "recv")

\* C14: when the datagram received is malformed wire, the server sends a
\* response whose resp_code is FormatError.
C14_FormatError ==
    (Handled /\ MalformedDatagram) =>
        /\ pc = "recv"
        /\ Decoding(out).outcome = "ok"
        /\ Decoding(out).message.header.resp_code = "FormatError"

(***************************************************************************)
(* Properties of Name.                                                     *)
(***************************************************************************)
\* Name::from_bytes is in its loop with the cursor on a pointer: the two top
\* bits of the next octet are set and a second octet follows
AtPointer ==
    /\ pc = "from_bytes"
    /\ ret.st.bytes.pos + 2 <= Len(arg.octets)
    /\ arg.octets[ret.st.bytes.pos + 1] >= 192

\* the 14-bit target of the pointer under the cursor
PointerTarget ==
    (arg.octets[ret.st.bytes.pos + 1] * 256
        + arg.octets[ret.st.bytes.pos + 2]) % 16384

\* the offset at which the name starts before any hop, the target of the
\* latest hop afterwards
HopMax == IF out = <<>> THEN arg.pos ELSE out[Len(out)]

\* C15: while a name is decoded, a pointer whose 14-bit target is greater
\* than or equal to max is rejected, max being the offset at which the name
\* starts before any hop and the target of the latest hop afterwards; any
\* other pointer is followed to its target, so that the targets of the hops
\* strictly decrease.
C15_PointerRule ==
    [][AtPointer =>
          /\ IF PointerTarget >= HopMax
             THEN pc' = "done" /\ ret'.outcome = "panic" /\ out' = out
             ELSE pc' = "from_bytes" /\ out' = Append(out, PointerTarget)
          /\ \A i \in 1..Len(out') :
                out'[i] < (IF i = 1 THEN arg.pos ELSE out'[i - 1])]_vars

\* a pointer was followed to its target and the pointer found there, whose
\* target is not below the first one's, was rejected
C15_Witness ==
    /\ pc = "done"
    /\ arg.op = "from_bytes"
    /\ ret.outcome = "panic"
    /\ Len(out) = 1
    /\ arg.octets[out[1] + 1] >= 192

\* the names yielded so far start at the root name and each has one label
\* more than the one before it, the next label of the name added on the left
GrowsFromRoot(name, names) ==
    /\ names # <<>> => names[1] = <<RootLabel>>
    /\ \A i \in 1..(Len(names) - 1) :
          names[i + 1] = <<name[Len(name) - i]>> \o names[i]

\* C16: for a name of n labels, the root label included, ancestors yields
\* the root name first, then names each one label longer than the one
\* before, the full name last: n names, after which it is exhausted.
C16_Ancestors ==
    arg.op = "ancestors" =>
        /\ pc \in {"ancestors", "exhausted"}
        /\ Len(out) <= Len(arg.name)
        /\ GrowsFromRoot(arg.name, out)
        /\ pc = "exhausted" =>
              /\ Len(out) = Len(arg.name)
              /\ out[Len(out)] = arg.name

\* the ancestors of a name of four labels have all been yielded
C16_Witness ==
    /\ arg.op = "ancestors"
    /\ pc = "exhausted"
    /\ Len(arg.name) = 4
    /\ Len(out) = 4

\* the names yielded so far start at the full name and each is the one before
\* it without its leftmost label
ShrinksFromFull(name, names) ==
    /\ names # <<>> => names[1] = name
    /\ \A i \in 1..(Len(names) - 1) : names[i + 1] = Tail(names[i])

\* C17: for a name of n labels, the root label included, suffixes yields the
\* full name first, then each name without the leftmost label of the one
\* before, the root name last: n names, after which it is exhausted.
C17_Suffixes ==
    arg.op = "suffixes" =>
        /\ pc \in {"suffixes", "exhausted"}
        /\ Len(out) <= Len(arg.name)
        /\ ShrinksFromFull(arg.name, out)
        /\ pc = "exhausted" =>
              /\ Len(out) = Len(arg.name)
              /\ out[Len(out)] = <<RootLabel>>

\* C18: for a name that is not the root name, to_wildcard gives a valid name
\* with as many labels, whose leftmost label is "*" and whose other labels
\* are those of the name at the same places.
C18_ToWildcard ==
    (arg.op = "to_wildcard" /\ pc = "done" /\ ~Name_is_root(arg.name)) =>
        /\ ret.outcome = "ok"
        /\ ValidName(ret.val)
        /\ Len(ret.val) = Len(arg.name)
        /\ ret.val[1] = Star
        /\ \A i \in 2..Len(arg.name) : ret.val[i] = arg.name[i]

\* the length of a label sequence on the wire: the octets of the labels and
\* one octet for each label
WireLength(labels) == Len(labels) + SumLen(labels)

\* at least one label, the root label last and nowhere else, "*" at most as
\* the leftmost label, fewer than 255 octets on the wire
WellFormed(labels) ==
    /\ Len(labels) >= 1
    /\ \A i \in 1..Len(labels) : (labels[i] = RootLabel) <=> (i = Len(labels))
    /\ \A i \in 2..Len(labels) : labels[i] # Star
    /\ WireLength(labels) < 255

\* C19: every name constructed, from text, from wire octets, from the zone
\* file, by ancestors, suffixes or to_wildcard, has at least one label, the
\* root label as its last label and nowhere else, "*" at most as its leftmost
\* label and a wire length below 255; any other label sequence is rejected.
C19_NameInvariant ==
    /\ (pc = "done" /\ ret.outcome = "ok") => WellFormed(ret.val)
    /\ arg.op \in {"ancestors", "suffixes"} =>
          \A i \in 1..Len(out) : WellFormed(out[i])
    /\ (pc = "done" /\ arg.op = "from_labels") =>
          (ret.outcome = "ok" <=> WellFormed(arg.labels))

\* a label sequence of 254 octets was made a name
C19_Witness ==
    /\ pc = "done"
    /\ arg.op = "from_labels"
    /\ ret.outcome = "ok"
    /\ WireLength(ret.val) = 254

(***************************************************************************)
(* Properties of the zone.                                                 *)
(***************************************************************************)
\* the name is the zone name or has it as a suffix of its labels
IsWithin(zone_name, name) ==
    /\ Len(name) >= Len(zone_name)
    /\ SubSeq(name, Len(name) - Len(zone_name) + 1, Len(name)) = zone_name

\* C20: in the zone the server serves, the name of every record is the zone
\* name or lies within it; a document that declares a record outside the
\* zone name is not accepted.
C20_RecordsInZone ==
    pc \in {"listening", "crashed"} =>
        \A i \in 1..Len(zone.records) :
            IsWithin(zone.name, zone.records[i].name)

(***************************************************************************)
(* Properties of the OPT record.                                           *)
(***************************************************************************)
\* the OPT record of the message of the run
TheOpt == msg.additional_records[Len(msg.additional_records)]

NoTransportFlag == ~arg.tcp /\ ~arg.udp

Contacted(transport) == \E i \in 1..Len(out) : out[i].transport = transport

UdpTruncated == ret.udp.outcome = "ok" /\ ret.udp.message.header.is_truncated

\* C22: with neither --udp nor --tcp the client sends the request over UDP
\* first and over TCP if and only if the UDP response has is_truncated set;
\* the final response is the TCP response then and the UDP response
\* otherwise; TCP is not contacted before the UDP response is received.
C22_UdpThenTcp ==
    (pc # "build" /\ NoTransportFlag) =>
        /\ pc = "udp" => out = <<>>
        /\ pc = "udp_recv" =>
              out = <<[transport |-> "udp", octets |-> Request_bytes(query)]>>
        /\ Contacted("tcp") =>
              /\ Len(out) = 2
              /\ out[1].transport = "udp"
              /\ out[2].transport = "tcp"
              /\ out[2].octets = Tcp_request(out[1].octets)
              /\ UdpTruncated
        /\ pc \in {"tcp", "tcp_read"} => UdpTruncated
        /\ pc = "done" =>
              /\ Contacted("udp")
              /\ Contacted("tcp") <=> UdpTruncated
              /\ result = IF UdpTruncated THEN ret.tcp ELSE ret.udp
              /\ result.outcome = "ok"

\* a truncated UDP response was followed by a TCP response, which is final
C22_Witness ==
    /\ pc = "done"
    /\ NoTransportFlag
    /\ UdpTruncated
    /\ Len(out) = 2
    /\ result = ret.tcp
    /\ ~result.message.header.is_truncated

SectionSizes(m) ==
    /\ m.header.question_count = Len(m.questions)
    /\ m.header.answer_count = Len(m.answer_records)
    /\ m.header.authority_count = Len(m.authority_records)
    /\ m.header.additional_count = Len(m.additional_records)

\* C27: the request handed to a transport has header counts equal to its
\* section sizes: one question, no answer and authority records, and
\* additional_count 1 with the OPT record attached, 0 with --no-edns.
C27_RequestCounts ==
    pc # "build" =>
        /\ SectionSizes(query)
        /\ query.header.question_count = 1
        /\ query.header.answer_count = 0
        /\ query.header.authority_count = 0
        /\ query.header.additional_count = (IF arg.edns THEN 1 ELSE 0)

\* C30: TcpTransport::send writes the request behind its two-octet length
\* and decodes the response from exactly the octets the length read
\* announces, neither truncated nor extended.
C30_TcpFraming ==
    /\ \A i \in 1..Len(out) :
          out[i].transport = "tcp" =>
              /\ out[i].octets[1] * 256 + out[i].octets[2]
                    = Len(out[i].octets) - 2
              /\ SubSeq(out[i].octets, 3, Len(out[i].octets))
                    = Request_bytes(query)
    /\ (pc \in {"done", "crashed"} /\ ret.stream # <<>>) =>
          ret.tcp = DecodingEdns(Tcp_response_buf_whole(ret.stream))

(***************************************************************************)
(* Properties of name compression.  The names written so far are kept as   *)
(* label sequences with the offset at which each suffix was first written  *)
(* out as labels.                                                          *)
(***************************************************************************)
Suffix(name, i) == SubSeq(name, i, Len(name))

\* the offset of the i-th label of a name within its uncompressed form
LabelOffset(name, i) == (i - 1) + SumLen(SubSeq(name, 1, i - 1))

IsSeen(seen, suffix) == \E s \in seen : s.suffix = suffix

\* the first suffix of the name that is the root name or was written before
FirstKnown(name, seen) ==
    CHOOSE i \in 1..Len(name) :
        /\ i = Len(name) \/ IsSeen(seen, Suffix(name, i))
        /\ \A k \in 1..(i - 1) : ~IsSeen(seen, Suffix(name, k))

\* the suffixes written out as labels by the first j names, each with the
\* offset of its first occurrence
RECURSIVE SeenUpTo(_)
SeenUpTo(j) ==
    IF j = 0 THEN {}
    ELSE Let(SeenUpTo(j - 1), LAMBDA seen :
         seen \cup {[suffix |-> Suffix(out[j].name, i),
                     offset |-> out[j].start + LabelOffset(out[j].name, i)] :
                        i \in 1..(FirstKnown(out[j].name, seen) - 1)})

RECURSIVE LabelOctets(_)
LabelOctets(labels) ==
    IF labels = <<>> THEN <<>>
    ELSE <<Len(Head(labels))>> \o Head(labels) \o LabelOctets(Tail(labels))

\* the two octets 11xxxxxx xxxxxxxx of a pointer to the offset
PointerOctets(offset) == <<192 + offset \div 256, offset % 256>>

\* what the compression scheme writes for a name after the suffixes seen
Compressed(name, seen) ==
    Let(FirstKnown(name, seen), LAMBDA k :
        LabelOctets(SubSeq(name, 1, k - 1))
        \o (IF k = Len(name) THEN <<0>>
            ELSE PointerOctets(
                     (CHOOSE s \in seen : s.suffix = Suffix(name, k)).offset)))

\* C23: of the names written into one cursor each non-root suffix is
\* written out as labels only at its first occurrence and that offset is
\* recorded; a later name with this suffix has, in place of the suffix, one
\* two-octet pointer 11xxxxxx xxxxxxxx with the recorded offset and ends
\* there; the root name is a single zero octet, never recorded.
C23_Compression ==
    /\ \A j \in 1..Len(out) :
          out[j].octets = Compressed(out[j].name, SeenUpTo(j - 1))
    /\ \A s \in SeenUpTo(Len(out)) :
          /\ Name_to_string(s.suffix) \in DOMAIN ret.bytes.occs
          /\ ret.bytes.occs[Name_to_string(s.suffix)] = s.offset
    /\ Name_to_string(RootName) \notin DOMAIN ret.bytes.occs

\* the name written last ends in a pointer: it is shorter than its labels
EndsInPointer(e) == Len(e.octets) < WireLength(e.name)

PointerWord(e) ==
    e.octets[Len(e.octets) - 1] * 256 + e.octets[Len(e.octets)]

\* the suffix the pointer stands for: the labels before it were written
PointedSuffix(e) ==
    CHOOSE i \in 1..Len(e.name) : LabelOffset(e.name, i) = Len(e.octets) - 2

\* C29: every pointer the encoder emits has its top two bits set and in its
\* low 14 bits the offset recorded for the first occurrence of the suffix,
\* which is below the pointer's own offset and below 2^14, whatever the
\* length of what was encoded before.
C29_PointerWord ==
    \A j \in 1..Len(out) :
        EndsInPointer(out[j]) =>
            LET e == out[j]
                recorded ==
                    ret.bytes.occs[Name_to_string(
                                       Suffix(e.name, PointedSuffix(e)))]
            IN  /\ PointerWord(e) \div 16384 = 3
                /\ PointerWord(e) % 16384 = recorded
                /\ recorded < e.start + Len(e.octets) - 2
                /\ recorded < 16384

(***************************************************************************)
(* Termination of name decoding.                                           *)
(***************************************************************************)
\* C24: Name::from_bytes ends on every buffer content, with a name or with
\* an error: no arrangement of pointers keeps it in its loop, and the hops
\* it follows for one name are at most the offset at which the name starts.
C24_Terminates ==
    /\ [](arg.op = "from_bytes" => Len(out) <= arg.pos)
    /\ (arg.op = "from_bytes") ~> (pc = "done" /\ ret.outcome \in {"ok", "panic"})

\* a name was returned after two hops
C24_Witness ==
    /\ pc = "done"
    /\ arg.op = "from_bytes"
    /\ ret.outcome = "ok"
    /\ Len(out) = 2
    /\ out[2] < out[1]
    /\ out[1] < arg.pos

(***************************************************************************)
(* Properties of the receive loop over its history.                        *)
(***************************************************************************)
\* C25: the server handles one query at a time in receive order: the
\* response to the k-th datagram received is sent, to the address that
\* datagram came from, before the next datagram is received, and a query
\* gets at most one response.
C25_OneAtATime ==
    \A i \in 1..Len(ret.log) :
        IF i % 2 = 1
        THEN ret.log[i].event = "recv"
        ELSE /\ ret.log[i].event = "send"
             /\ ret.log[i].addr = ret.log[i - 1].addr
             /\ SubSeq(ret.log[i].octets, 1, 2)
                   = SubSeq(ret.log[i - 1].octets, 1, 2)

\* three queries from two peers were answered, each before the next came
C25_Witness ==
    /\ pc = "recv"
    /\ Len(ret.log) = 6
    /\ ret.log[1].addr # ret.log[3].addr
    /\ ret.log[3].octets # ret.log[5].octets
    /\ ret.log[4].addr = ret.log[3].addr

(***************************************************************************)
(* The response codes of the lookup.                                       *)
(***************************************************************************)
\* C26: every response serve returns has resp_code Success, NameError or
\* NotImplemented, also when the header of the query carried another code.
C26_ResponseCodes ==
    Returned => Response.header.resp_code \in {"Success", "NameError",
                                                "NotImplemented"}

\* a query that came with Refused in its header was answered with Success
C26_Witness ==
    /\ Returned
    /\ query.header.resp_code = "Refused"
    /\ Response.header.resp_code = "Success"
    /\ Len(Response.answer_records) > Len(query.answer_records)

(***************************************************************************)
(* The names of the zone file and the names parsed from text.              *)
(***************************************************************************)
EndsInDot(text) == text # <<>> /\ text[Len(text)] = Dot

\* the document names its zone and every record by a text ending in "." and
\* every class by a class
FullyQualified(doc) ==
    /\ EndsInDot(doc.name)
    /\ \A i \in 1..Len(doc.records) :
          /\ EndsInDot(doc.records[i].name)
          /\ doc.records[i].class = "IN"

\* C28: for every name text ending in ".", the root name "." included, the
\* zone loader reads the same Name as Name::from_str does, so that a record
\* loaded from the zone file is found by find_with_name for the name parsed
\* from its text.
C28_LoadedNames ==
    (pc # "load" /\ FullyQualified(arg.doc)) =>
        /\ ret.outcome = "ok"
        /\ Len(zone.records) = Len(arg.doc.records)
        /\ \A i \in 1..Len(zone.records) :
              LET parsed == Name_from_str(arg.doc.records[i].name) IN
              /\ parsed.ok
              /\ zone.records[i].name = parsed.val
              /\ \E k \in 1..Len(find_with_name(zone, parsed.val)) :
                    find_with_name(zone, parsed.val)[k] = zone.records[i]

====
